---- MODULE Spec2Model ----
(***************************************************************************)
(* Model of the codespell Azure DevOps task: the run() entry point of      *)
(* src/task/index.ts (latest variant, lines 201-285) and the platform      *)
(* client of src/task/utils/azureDevOpsClient.ts.  One pull request is     *)
(* modelled; several pipeline runs (processes) work on it.                 *)
(***************************************************************************)
EXTENDS Integers, Sequences, FiniteSets, TLC

\* ------------------------------------------------------------------------
\* Values
\* ------------------------------------------------------------------------

\* Run slots: pipeline processes that may be alive at the same time.
Runs == {1, 2}

\* Values of System.JobId.
JobIds == {"j1", "j2"}

\* Total number of runs started in one behaviour.
MaxRuns == 2

\* A property that is missing on the platform reads as undefined; the code
\* tests it with a truthiness check, so the empty string behaves the same.
Absent == ""

\* The ownerJobId field of IPullRequstLock when it was never assigned.
Undefined == "undefined"

\* CommentThreadStatus values of the platform API that the code tells apart.
Active == "Active"
Fixed == "Fixed"
Closed == "Closed"
ThreadStatuses == {Active, Fixed, Closed}

\* Identity of the authenticated caller (getUserId) and of another actor.
Me == "me"
Other == "other"

\* ------------------------------------------------------------------------
\* String helpers (JavaScript String methods used by the code)
\* ------------------------------------------------------------------------

CharAt(s, i) == SubSeq(s, i, i)

\* s.startsWith(prefix)
StartsWith(s, prefix) ==
    Len(s) >= Len(prefix) /\ SubSeq(s, 1, Len(prefix)) = prefix

\* s.endsWith(suffix)
EndsWith(s, suffix) ==
    Len(s) >= Len(suffix) /\ SubSeq(s, Len(s) - Len(suffix) + 1, Len(s)) = suffix

\* s.indexOf(sub): 0-based position of the first occurrence, -1 when none.
IndexOf(s, sub) ==
    LET hits == {i \in 0..(Len(s) - Len(sub)) : SubSeq(s, i + 1, i + Len(sub)) = sub}
    IN IF hits = {} THEN -1 ELSE CHOOSE i \in hits : \A j \in hits : i <= j

\* s.substring(from) with a 0-based start.
SubstringFrom(s, from) ==
    LET start == IF from < 0 THEN 0 ELSE from
    IN SubSeq(s, start + 1, Len(s))

\* s.substring(0, to)
SubstringTo(s, to) ==
    LET stop == IF to < 0 THEN 0 ELSE to
    IN SubSeq(s, 1, stop)

IsSpace(c) == c \in {" ", "\t", "\n", "\r"}

\* s.trim()
RECURSIVE TrimStart(_)
TrimStart(s) ==
    IF s # "" /\ IsSpace(CharAt(s, 1)) THEN TrimStart(SubSeq(s, 2, Len(s))) ELSE s

RECURSIVE TrimEnd(_)
TrimEnd(s) ==
    IF s # "" /\ IsSpace(CharAt(s, Len(s))) THEN TrimEnd(SubSeq(s, 1, Len(s) - 1)) ELSE s

Trim(s) == TrimEnd(TrimStart(s))

\* s.split(sep) for a separator of one character: never an empty list.
RECURSIVE Split(_, _)
Split(s, sep) ==
    LET at == IndexOf(s, sep)
    IN IF at = -1 THEN <<s>>
       ELSE <<SubstringTo(s, at)>> \o Split(SubstringFrom(s, at + 1), sep)

UpperCase == "ABCDEFGHIJKLMNOPQRSTUVWXYZ"
LowerCase == "abcdefghijklmnopqrstuvwxyz"

\* s.toLocaleLowerCase() for the letters A-Z.
RECURSIVE ToLowerCase(_)
ToLowerCase(s) ==
    IF s = "" THEN ""
    ELSE LET c == CharAt(s, 1)
             at == IndexOf(UpperCase, c)
         IN (IF at = -1 THEN c ELSE CharAt(LowerCase, at + 1))
            \o ToLowerCase(SubSeq(s, 2, Len(s)))

\* array.pop(): the last element.
Last(list) == list[Len(list)]

\* array.splice(start, deleteCount) returns the elements it removed; a
\* negative deleteCount removes nothing.
SpliceRemoved(list, start, deleteCount) ==
    IF deleteCount <= 0 THEN <<>>
    ELSE SubSeq(list, start + 1,
                IF start + deleteCount > Len(list) THEN Len(list) ELSE start + deleteCount)

\* ------------------------------------------------------------------------
\* Pure helpers of azureDevOpsClient.ts
\* ------------------------------------------------------------------------

\* path.replace(/\\/g, '/')
RECURSIVE ReplaceBackslashes(_)
ReplaceBackslashes(p) ==
    IF p = "" THEN ""
    ELSE (IF CharAt(p, 1) = "\\" THEN "/" ELSE CharAt(p, 1))
         \o ReplaceBackslashes(SubSeq(p, 2, Len(p)))

\* path.replace(/^\.\//, '/')
ReplaceLeadingDotSlash(p) ==
    IF StartsWith(p, "./") THEN SubSeq(p, 2, Len(p)) ELSE p

\* Mutant: the slash is put in front of every path.
EnsureLeadingSlashAlways(p) == "/" \o p

\* path.replace(/^([^/])/, '/$1')
EnsureLeadingSlash(p) ==
    IF Len(p) >= 1 /\ CharAt(p, 1) # "/" THEN "/" \o p ELSE p

normalizeDevOpsPath(p) ==
    EnsureLeadingSlash(ReplaceLeadingDotSlash(ReplaceBackslashes(p)))

\* JSON.stringify(suggestion) stored as the $value of the thread property
\* 'codespell:suggestion'; a missing property is the empty sequence.
NoProperty == <<>>
JSONstringify(suggestion) == <<suggestion>>
JSONparse(value) == value[1]

\* getSuggestionFromThread: null (here NoProperty) when the property is
\* missing, else the parsed record wrapped in a one-element sequence.
getSuggestionFromThread(thread) ==
    IF thread.suggestionProperty = NoProperty
    THEN NoProperty
    ELSE <<JSONparse(thread.suggestionProperty)>>

\* Mutant: the identity also compares the line text.
isThreadForSuggestionLineText(userId, thread, suggestion) ==
    LET threadSuggestion == getSuggestionFromThread(thread) IN
    /\ thread.isDeleted = FALSE
    /\ thread.status = Active
    /\ \E i \in 1..Len(thread.comments) : thread.comments[i].author = userId
    /\ threadSuggestion # NoProperty
    /\ threadSuggestion[1].path = suggestion.path
    /\ threadSuggestion[1].lineNumber = suggestion.lineNumber
    /\ threadSuggestion[1].word = suggestion.word
    /\ threadSuggestion[1].lineText = suggestion.lineText

\* Mutant: the author of the comments is not looked at.
isThreadForSuggestionAnyAuthor(userId, thread, suggestion) ==
    LET threadSuggestion == getSuggestionFromThread(thread) IN
    /\ thread.isDeleted = FALSE
    /\ thread.status = Active
    /\ threadSuggestion # NoProperty
    /\ threadSuggestion[1].path = suggestion.path
    /\ threadSuggestion[1].lineNumber = suggestion.lineNumber
    /\ threadSuggestion[1].word = suggestion.word

isThreadForSuggestion(userId, thread, suggestion) ==
    LET threadSuggestion == getSuggestionFromThread(thread) IN
    /\ thread.isDeleted = FALSE
    /\ thread.status = Active
    /\ \E i \in 1..Len(thread.comments) : thread.comments[i].author = userId
    /\ threadSuggestion # NoProperty
    /\ threadSuggestion[1].path = suggestion.path
    /\ threadSuggestion[1].lineNumber = suggestion.lineNumber
    /\ threadSuggestion[1].word = suggestion.word

\* suggestions.join('|')
RECURSIVE JoinWith(_, _)
JoinWith(list, sep) ==
    IF list = <<>> THEN ""
    ELSE IF Len(list) = 1 THEN list[1]
    ELSE list[1] \o sep \o JoinWith(Tail(list), sep)

\* `${suggestion.word} --> ${suggestion.suggestions.join('|')}`
getWordPlaceholderTextForSuggestion(suggestion) ==
    suggestion.word \o " --> " \o JoinWith(suggestion.suggestions, "|")

\* ------------------------------------------------------------------------
\* Inputs of the pure-function specifications
\* ------------------------------------------------------------------------

Comment(author, content, usersLiked) ==
    [author |-> author, content |-> content, usersLiked |-> usersLiked]

FnSuggestions ==
    [path : {"a/b", "./a/b", "c"},
     lineNumber : {1, 2},
     lineText : {"teh fox", "a teh"},
     word : {"teh", "fo"},
     suggestions : {<<"the">>, <<"the", "ten">>}]

FnThreads ==
    [threadContext : {[filePath |-> "/a/b", line |-> 1,
                       startOffset |-> 0, endOffset |-> 3]},
     isDeleted : BOOLEAN,
     status : ThreadStatuses,
     comments : {<<>>,
                 <<Comment(Me, "found", {})>>,
                 <<Comment(Other, "found", {})>>,
                 <<Comment(Other, "found", {}), Comment(Me, "ok", {})>>},
     suggestionProperty :
        {NoProperty} \cup
        {JSONstringify(s) : s \in {f \in FnSuggestions : f.lineText = "teh fox"}}]

\* ------------------------------------------------------------------------
\* Task configuration (extensionConfigParser.ts)
\* ------------------------------------------------------------------------

\* parseInt(getVariable("System.PullRequest.PullRequestId") || "0")
ParsePullRequestId(v) == IF v = "7" THEN 7 ELSE 0

\* The environment of a run: pipeline variables, task inputs and the keys
\* of the [devops] section of .codespellrc (TRUE when the key is present).
Env(uri, prVar, jobVar, inputs, hasRc, rcKeys) ==
    [collectionUri |-> uri, teamProject |-> "proj", repositoryId |-> "repo",
     pullRequestIdVar |-> prVar, jobIdVar |-> jobVar,
     inputCommit |-> inputs[1], inputComment |-> inputs[2],
     inputFail |-> inputs[3], inputSkipIfMissing |-> inputs[4],
     hasRc |-> hasRc,
     rcCommit |-> rcKeys[1], rcComment |-> rcKeys[2], rcFail |-> rcKeys[3],
     inputPostFixCommand |-> "", rcPostFixCommand |-> ""]

\* The environment with the task input postFixCommand set.
WithPostFixCommand(env, command) == [env EXCEPT !.inputPostFixCommand = command]

\* The error parseExtensionConfiguration throws, "" when it returns.
ConfigurationError(env) ==
    IF env.collectionUri = "" THEN "Required variable 'System.CollectionUri' is not set"
    ELSE IF env.teamProject = "" THEN "Required variable 'System.TeamProject' is not set"
    ELSE IF env.repositoryId = "" THEN "Required variable 'Build.Repository.ID' is not set"
    ELSE ""

\* parseExtensionConfiguration: the IExtensionConfig it returns.
parseExtensionConfiguration(env) ==
    [pullRequestId |-> ParsePullRequestId(env.pullRequestIdVar),
     jobId |-> IF env.jobIdVar = "" THEN "0" ELSE env.jobIdVar,
     hasCodeSpellConfigFile |-> env.hasRc,
     commitSuggestions |-> env.inputCommit \/ (env.hasRc /\ env.rcCommit),
     commentSuggestions |-> env.inputComment \/ (env.hasRc /\ env.rcComment),
     postFixCommand |-> IF env.inputPostFixCommand # "" THEN env.inputPostFixCommand
                        ELSE IF env.hasRc THEN env.rcPostFixCommand ELSE "",
     skipIfCodeSpellConfigMissing |-> env.inputSkipIfMissing,
     failOnMisspelling |-> env.inputFail \/ (env.hasRc /\ env.rcFail)]

\* The config of a slot that has not run yet.
NoConfig ==
    [pullRequestId |-> 0, jobId |-> "0", hasCodeSpellConfigFile |-> FALSE,
     commitSuggestions |-> FALSE, commentSuggestions |-> FALSE,
     postFixCommand |-> "",
     skipIfCodeSpellConfigMissing |-> FALSE, failOnMisspelling |-> FALSE]

\* ------------------------------------------------------------------------
\* State
\* ------------------------------------------------------------------------

VARIABLES
    lockProp,   \* platform: the pull request property Codespell.Lock.JobId
    threads,    \* platform: the comment threads of the pull request, by id
    repo,       \* platform: the content of the source branch
    pc,         \* per run: position in run()
    config,     \* per run: the parsed IExtensionConfig
    prLock,     \* per run: the prLock variable of run()
    result,     \* per run: the task result set by setResult
    codespell,  \* per run: the ICodeSpellResult of the runner
    inflight,   \* per run: platform calls started and not awaited
    disk,       \* per run: the work tree of the checkout
    base,       \* per run: the content of the commit that was checked out
    pathsToPush, \* per run: filePathsToCommit of a commit call in progress
    runner,     \* per run: how far a call of CodespellRunner.run has come
    hist,       \* per run: what the run has done so far (history)
    prev,       \* per run: how the previous run of the slot ended (history)
    started,    \* number of runs started
    lostUpdate, \* history: an acquire wrote over a value another run had written
    fnIn,       \* input of the pure function under check
    fnOut       \* its result, <<>> before it is applied

vars == <<lockProp, threads, repo, pc, config, prLock, result, codespell,
          inflight, disk, base, pathsToPush, runner, hist, prev, started,
          lostUpdate, fnIn, fnOut>>

platformVars == <<lockProp, threads, repo>>
diskVars == <<disk, base, pathsToPush, runner>>
fnVars == <<fnIn, fnOut>>

\* prLock before acquireLockForPullRequest has returned (null).
NoLock == [set |-> FALSE, wasAcquired |-> FALSE, ownerJobId |-> Undefined]
Lock(wasAcquired, ownerJobId) ==
    [set |-> TRUE, wasAcquired |-> wasAcquired, ownerJobId |-> ownerJobId]

NoCodespell == [returnCode |-> 0, fixed |-> {}, suggestions |-> <<>>]

\* No call of CodespellRunner.run is in progress.  While one is, phase tells
\* which of its two waits has ended: "toolEnded" once the tool has ended
\* (await execAsync, line 186), "postFixEnded" once the post-fix command
\* has (await execAsync, line 237); out is what the tool printed,
\* postFixCommand the option of the call, threw whether the post-fix command
\* ended with an exit code other than 0.
NoRunner ==
    [phase |-> "none", out |-> [returnCode |-> 0, fixes |-> {}, suggestions |-> <<>>],
     postFixCommand |-> "", threw |-> FALSE]

\* overlapped: a thread call started earlier was still pending when the
\* comment method read the threads.
NoHist ==
    [readExisting |-> Undefined, releaseAttempted |-> FALSE, mutations |-> {},
     commented |-> FALSE, launched |-> 0, opFailed |-> FALSE, found |-> <<>>,
     overlapped |-> FALSE,
     unhandled |-> "", pushed |-> {}, staleAtStart |-> ""]

NoPrev == [clean |-> FALSE, lost |-> FALSE, found |-> <<>>]

NoFn == [fn |-> "none"]

InitRuns ==
    /\ pc = [r \in Runs |-> "idle"]
    /\ config = [r \in Runs |-> NoConfig]
    /\ prLock = [r \in Runs |-> NoLock]
    /\ result = [r \in Runs |-> "None"]
    /\ codespell = [r \in Runs |-> NoCodespell]
    /\ inflight = [r \in Runs |-> <<>>]
    /\ hist = [r \in Runs |-> NoHist]
    /\ prev = [r \in Runs |-> NoPrev]
    /\ pathsToPush = [r \in Runs |-> {}]
    /\ runner = [r \in Runs |-> NoRunner]
    /\ started = 0
    /\ lostUpdate = FALSE
    /\ disk = [r \in Runs |-> repo]
    /\ base = [r \in Runs |-> repo]

\* ------------------------------------------------------------------------
\* The pull request on the platform
\* ------------------------------------------------------------------------

ChangeEntry(changeType, isFolder, path) ==
    [changeType |-> changeType, isFolder |-> isFolder, path |-> path]

\* getPullRequestIterationChanges of every iteration of the pull request.
PullRequestIterations ==
    << {ChangeEntry("Edit", FALSE, "/a/b"), ChangeEntry("Delete", FALSE, "/gone")},
       {ChangeEntry("Add", FALSE, "a\\d"), ChangeEntry("Add", TRUE, "/dir")} >>

getChangedFilePathsForPullRequest ==
    {normalizeDevOpsPath(c.path) :
        c \in {e \in UNION {PullRequestIterations[i] : i \in 1..Len(PullRequestIterations)} :
                  /\ e.changeType \in {"Add", "Edit"}
                  /\ e.isFolder # TRUE}}

ThreadContext(filePath, line, startOffset, endOffset) ==
    [filePath |-> filePath, line |-> line,
     startOffset |-> startOffset, endOffset |-> endOffset]

Thread(isDeleted, status, comments, threadContext, suggestionProperty) ==
    [isDeleted |-> isDeleted, status |-> status, comments |-> comments,
     threadContext |-> threadContext, suggestionProperty |-> suggestionProperty]

\* The ids of the threads that pass the filter
\* (thread) => !thread.isDeleted && thread.status === CommentThreadStatus.Active
ActiveThreadIds(ts) ==
    {id \in 1..Len(ts) : ~ts[id].isDeleted /\ ts[id].status = Active}

\* ------------------------------------------------------------------------
\* acquireLockForPullRequest / releaseLockForPullRequest
\* ------------------------------------------------------------------------

\* Mutant: a foreign owner is reported as acquired.
AcquireExistingAlways(jobId, existingJobId) == Lock(TRUE, existingJobId)

\* Mutant: an id that is present is taken over by the caller.
AcquireExistingTakeover(jobId, existingJobId) == Lock(TRUE, jobId)

\* Mutant: an id that is present is never the caller's.
AcquireExistingNever(jobId, existingJobId) == Lock(FALSE, existingJobId)

\* Mutant: the owner reported is the caller, not the stored id.
AcquireExistingOwnId(jobId, existingJobId) == Lock(jobId = existingJobId, jobId)

\* Lines 44-49: the property holds a job id.
AcquireExisting(jobId, existingJobId) ==
    Lock(jobId = existingJobId, existingJobId)

\* Mutant: the write path reports no owner.
AcquireWrittenNoOwner(newValue) == Lock(TRUE, "")

\* Lines 67-70: the property was written, newValue is read from the response.
AcquireWritten(newValue) ==
    Lock(TRUE, IF newValue = Absent THEN "" ELSE newValue)

\* Lines 71-77: a platform call of acquire threw.
AcquireFailed == Lock(FALSE, Undefined)

\* Mutant: the result of acquire is not looked at.
ProceedsAlways(lock, cfg) == TRUE

\* index.ts 215: the negation of the skip condition.
Proceeds(lock, cfg) == lock.wasAcquired /\ lock.ownerJobId = cfg.jobId

\* Mutant: the release is attempted whenever the run is about a pull request.
ReleasesAlways(cfg, lock) == cfg.pullRequestId > 0

\* index.ts 281: the condition of the finally block.
Releases(cfg, lock) == cfg.pullRequestId > 0 /\ lock.set /\ lock.wasAcquired

\* Where run() goes when it leaves the try block.
ExitPc(cfg, lock) == IF Releases(cfg, lock) THEN "release" ELSE "done"

\* index.ts 264-274: the task result decided by the findings.
ResultFor(cfg, suggestions) ==
    IF Len(suggestions) = 0 THEN "Succeeded"
    ELSE IF ~cfg.failOnMisspelling THEN "SucceededWithIssues"
    ELSE "Failed"

\* ------------------------------------------------------------------------
\* run() of index.ts, one action per awaited step
\* ------------------------------------------------------------------------

\* The process of slot q is alive: run() has not returned, or calls it
\* started without awaiting them are still pending.
Live(q) == pc[q] \notin {"idle", "done", "killed"} \/ inflight[q] # <<>>

\* The history of a run that starts: the lock value it finds left behind by
\* a run that is no longer alive, "" when there is none.
StartHist(r) ==
    [NoHist EXCEPT !.staleAtStart =
        IF lockProp # Absent /\ \A q \in Runs \ {r} : ~Live(q) THEN lockProp ELSE ""]

\* Lines 201-211 and the entry into the try block: the configuration is
\* parsed in the checkout of the source branch (fs.existsSync of .codespellrc
\* there; a missing context value throws out of run(), no result is set),
\* the run is skipped when the config file is missing and the input asks so.
Start(r, envs) ==
    /\ ~Live(r)
    /\ started < MaxRuns
    /\ \E env \in envs :
        LET cfg == parseExtensionConfiguration([env EXCEPT !.hasRc = repo.rc.exists]) IN
        /\ \A q \in Runs \ {r} : Live(q) => config[q].jobId # cfg.jobId
        /\ config' = [config EXCEPT ![r] = cfg]
        /\ IF ConfigurationError(env) # ""
           THEN /\ pc' = [pc EXCEPT ![r] = "done"]
                /\ result' = [result EXCEPT ![r] = "None"]
                /\ hist' = [hist EXCEPT ![r] =
                       [StartHist(r) EXCEPT !.unhandled = ConfigurationError(env)]]
           ELSE IF cfg.skipIfCodeSpellConfigMissing /\ ~cfg.hasCodeSpellConfigFile
           THEN /\ pc' = [pc EXCEPT ![r] = "done"]
                /\ result' = [result EXCEPT ![r] = "Skipped"]
                /\ hist' = [hist EXCEPT ![r] = StartHist(r)]
           ELSE /\ pc' = [pc EXCEPT ![r] =
                       IF cfg.pullRequestId > 0 THEN "acquire" ELSE "codespell"]
                /\ result' = [result EXCEPT ![r] = "None"]
                /\ hist' = [hist EXCEPT ![r] = StartHist(r)]
    /\ prev' = [prev EXCEPT ![r] =
           [clean |-> pc[r] = "done" /\ hist[r].commented /\ ~hist[r].opFailed
                         /\ ~hist[r].overlapped,
            lost |-> pc[r] = "done" /\ hist[r].commented /\ hist[r].opFailed
                        /\ hist[r].pushed # {},
            found |-> hist[r].found]]
    /\ prLock' = [prLock EXCEPT ![r] = NoLock]
    /\ codespell' = [codespell EXCEPT ![r] = NoCodespell]
    /\ started' = started + 1
    /\ disk' = [disk EXCEPT ![r] = repo]
    /\ base' = [base EXCEPT ![r] = repo]
    /\ pathsToPush' = [pathsToPush EXCEPT ![r] = {}]
    /\ runner' = [runner EXCEPT ![r] = NoRunner]
    /\ UNCHANGED <<platformVars, inflight, lostUpdate, fnVars>>

\* Lines 215-225 of index.ts, after acquireLockForPullRequest returned lock.
AfterAcquire(r, lock) ==
    /\ prLock' = [prLock EXCEPT ![r] = lock]
    /\ IF Proceeds(lock, config[r])
       THEN /\ pc' = [pc EXCEPT ![r] =
                   IF config[r].commentSuggestions THEN "commands" ELSE "codespell"]
            /\ UNCHANGED result
       ELSE /\ pc' = [pc EXCEPT ![r] = ExitPc(config[r], lock)]
            /\ result' = [result EXCEPT ![r] = "Skipped"]

\* Mutant: the write follows the read also when the property holds a value.
AcquireReadAlwaysWrites(r) ==
    /\ pc[r] = "acquire"
    /\ hist' = [hist EXCEPT ![r].readExisting = lockProp]
    /\ pc' = [pc EXCEPT ![r] = "acquireWrite"]
    /\ UNCHANGED <<prLock, result>>
    /\ UNCHANGED <<platformVars, config, codespell, inflight, diskVars, prev,
                   started, lostUpdate, fnVars>>

\* acquireLockForPullRequest lines 41-49: the property is read.
AcquireRead(r) ==
    /\ pc[r] = "acquire"
    /\ \E ok \in BOOLEAN :
        IF ~ok
        THEN /\ AfterAcquire(r, AcquireFailed)
             /\ UNCHANGED hist
        ELSE /\ hist' = [hist EXCEPT ![r].readExisting = lockProp]
             /\ IF lockProp # Absent
                THEN AfterAcquire(r, AcquireExisting(config[r].jobId, lockProp))
                ELSE /\ pc' = [pc EXCEPT ![r] = "acquireWrite"]
                     /\ UNCHANGED <<prLock, result>>
    /\ UNCHANGED <<platformVars, config, codespell, inflight, diskVars, prev,
                   started, lostUpdate, fnVars>>

\* acquireLockForPullRequest lines 51-70: the property is written and the
\* new value is read from the response.
AcquireWrite(r) ==
    /\ pc[r] = "acquireWrite"
    /\ \E ok \in BOOLEAN :
        IF ~ok
        THEN /\ AfterAcquire(r, AcquireFailed)
             /\ UNCHANGED <<lockProp, lostUpdate>>
        ELSE /\ lockProp' = config[r].jobId
             /\ lostUpdate' = (lostUpdate \/ lockProp # Absent)
             /\ AfterAcquire(r, AcquireWritten(lockProp'))
    /\ UNCHANGED <<threads, repo, config, codespell, inflight, diskVars,
                   hist, prev, started, fnVars>>

\* Mutant: the commit and comment steps run without a pull request.
StepAfterCodespellAnyRun(cfg) ==
    IF cfg.commitSuggestions THEN "commit"
    ELSE IF cfg.commentSuggestions THEN "comment"
    ELSE "report"

\* Lines 244-274 of index.ts from the given step on: the steps that are
\* configured follow, the last one sets the result and leaves the try block.
StepAfterCodespell(cfg) ==
    IF cfg.pullRequestId > 0 /\ cfg.commitSuggestions THEN "commit"
    ELSE IF cfg.pullRequestId > 0 /\ cfg.commentSuggestions THEN "comment"
    ELSE "report"

\* The pc and result of run r when its next step is `step`.
Continue(r, step, suggestions) ==
    IF step = "report"
    THEN /\ pc' = [pc EXCEPT ![r] = ExitPc(config[r], prLock[r])]
         /\ result' = [result EXCEPT ![r] = ResultFor(config[r], suggestions)]
    ELSE /\ pc' = [pc EXCEPT ![r] = step]
         /\ UNCHANGED result

\* Lines 276-279: an exception reached the catch block of run().
Throw(r) ==
    /\ pc' = [pc EXCEPT ![r] = ExitPc(config[r], prLock[r])]
    /\ result' = [result EXCEPT ![r] = "Failed"]

\* ------------------------------------------------------------------------
\* commentSuggestionsOnPullRequest
\* ------------------------------------------------------------------------

\* A platform call that was started and is not awaited by run().
Op(op, threadId, commentId, thread) ==
    [op |-> op, threadId |-> threadId, commentId |-> commentId, thread |-> thread]

\* The elements of a set of numbers in ascending order (forEach order).
RECURSIVE Ascending(_)
Ascending(S) ==
    IF S = {} THEN <<>>
    ELSE LET m == CHOOSE x \in S : \A y \in S : x <= y
         IN <<m>> \o Ascending(S \ {m})

RECURSIVE MapSeq(_, _)
MapSeq(F(_), list) ==
    IF list = <<>> THEN <<>> ELSE <<F(Head(list))>> \o MapSeq(F, Tail(list))

HasActiveThread(userId, ts, suggestion) ==
    \E id \in ActiveThreadIds(ts) : isThreadForSuggestion(userId, ts[id], suggestion)

\* Mutant: the changed-file filter is missing.
SuggestionsToCommentAnyFile(userId, ts, suggestions, changedFilePaths) ==
    SelectSeq(suggestions, LAMBDA s : ~HasActiveThread(userId, ts, s))

\* Mutant: the existing threads are not looked at.
SuggestionsToCommentAgain(userId, ts, suggestions, changedFilePaths) ==
    SelectSeq(suggestions, LAMBDA s : normalizeDevOpsPath(s.path) \in changedFilePaths)

\* Lines 204-217: the suggestions that get a new thread.
SuggestionsToComment(userId, ts, suggestions, changedFilePaths) ==
    SelectSeq(suggestions,
              LAMBDA s : /\ normalizeDevOpsPath(s.path) \in changedFilePaths
                         /\ ~HasActiveThread(userId, ts, s))

\* Mutant: every active thread of the engine is resolved.
ThreadsToResolveAll(userId, ts, suggestions) ==
    {id \in ActiveThreadIds(ts) : getSuggestionFromThread(ts[id]) # NoProperty}

\* Lines 219-229: the active threads that are closed as fixed.
ThreadsToResolve(userId, ts, suggestions) ==
    {id \in ActiveThreadIds(ts) :
        /\ getSuggestionFromThread(ts[id]) # NoProperty
        /\ ~\E i \in 1..Len(suggestions) :
               isThreadForSuggestion(userId, ts[id], suggestions[i])
        /\ id # 0}

\* Lines 245-249: the text the thread is anchored to and its offsets.
SuggestionLineContextText(suggestion) ==
    IF IndexOf(suggestion.lineText, getWordPlaceholderTextForSuggestion(suggestion)) # -1
    THEN getWordPlaceholderTextForSuggestion(suggestion)
    ELSE suggestion.word

\* Mutant: the thread embeds the text it is anchored to as the word.
NewThreadAnchorWord(userId, suggestion) ==
    LET text == SuggestionLineContextText(suggestion)
        startOffset == IndexOf(suggestion.lineText, text)
    IN Thread(FALSE, Active,
              <<Comment(userId, "Found misspelt word " \o suggestion.word \o ".", {})>>,
              ThreadContext(normalizeDevOpsPath(suggestion.path), suggestion.lineNumber,
                            startOffset, startOffset + Len(text)),
              JSONstringify([suggestion EXCEPT !.word = text]))

\* Lines 250-284: the thread handed to createThread; the platform makes the
\* caller the author of its comment.  The content is the first line of the
\* comment without the quotes around the word; the suggestion blocks and the
\* help text follow it.
NewThread(userId, suggestion) ==
    LET text == SuggestionLineContextText(suggestion)
        startOffset == IndexOf(suggestion.lineText, text)
    IN Thread(FALSE, Active,
              <<Comment(userId, "Found misspelt word " \o suggestion.word \o ".", {})>>,
              ThreadContext(normalizeDevOpsPath(suggestion.path), suggestion.lineNumber,
                            startOffset, startOffset + Len(text)),
              JSONstringify(suggestion))

\* Lines 219-285: the calls the two forEach(async ...) loops start.
ReconcileOps(userId, ts, suggestions, changedFilePaths) ==
    MapSeq(LAMBDA id : Op("updateThread", id, 0, <<>>),
           Ascending(ThreadsToResolve(userId, ts, suggestions)))
    \o MapSeq(LAMBDA s : Op("createThread", 0, 0, <<NewThread(userId, s)>>),
              SuggestionsToComment(userId, ts, suggestions, changedFilePaths))

OpKinds(ops) == {ops[i].op : i \in 1..Len(ops)}

\* index.ts 252-257: the comment step.  The platform reads may throw; the
\* calls of the loops are started and the function returns.
CommentSuggestions(r) ==
    /\ pc[r] = "comment"
    /\ \/ /\ Throw(r)
          /\ UNCHANGED <<inflight, hist>>
       \/ LET ops == ReconcileOps(Me, threads, codespell[r].suggestions,
                                  getChangedFilePathsForPullRequest)
          IN /\ inflight' = [inflight EXCEPT ![r] = @ \o ops]
             /\ hist' = [hist EXCEPT ![r].commented = TRUE,
                                     ![r].overlapped =
                                         \E i \in DOMAIN inflight[r] :
                                             inflight[r][i].op # "createLike",
                                     ![r].launched = Len(ops),
                                     ![r].mutations = @ \cup OpKinds(ops)]
             /\ Continue(r, "report", codespell[r].suggestions)
    /\ UNCHANGED <<platformVars, config, prLock, codespell, diskVars, prev,
                   started, lostUpdate, fnVars>>

\* ------------------------------------------------------------------------
\* Files of the checkout and commitSuggestionsToPullRequest
\* ------------------------------------------------------------------------

\* The file a relative path names: './a/b' and 'a/b' are the same file.
FileKey(path) == IF StartsWith(path, "./") THEN SubSeq(path, 3, Len(path)) ELSE path

\* fs.readFileSync(path) succeeds.
FileExists(files, path) == FileKey(path) \in DOMAIN files

\* Lines 134-144: the line with the word replaced by the placeholder text.
PlaceholderLine(line, suggestion) ==
    LET at == IndexOf(line, suggestion.word)
        lineStart == SubstringTo(line, at)
        lineEnd == SubstringFrom(line, at + Len(suggestion.word))
    IN lineStart \o getWordPlaceholderTextForSuggestion(suggestion) \o lineEnd

\* Line 140: the placeholder text is not in the line yet.
NeedsPlaceholder(line, suggestion) ==
    IndexOf(line, getWordPlaceholderTextForSuggestion(suggestion)) = -1

\* Lines 132-149 for one suggestion: the files and the suggestion after the
\* rewrite; failed when reading the file or the line throws.
PatchSuggestion(files, suggestion) ==
    IF ~FileExists(files, suggestion.path)
          \/ suggestion.lineNumber \notin 1..Len(files[FileKey(suggestion.path)])
    THEN [failed |-> TRUE, files |-> files, suggestion |-> suggestion]
    ELSE LET key == FileKey(suggestion.path)
             line == files[key][suggestion.lineNumber]
             newLineText == PlaceholderLine(line, suggestion)
         IN IF NeedsPlaceholder(line, suggestion)
            THEN [failed |-> FALSE,
                  files |-> [files EXCEPT ![key][suggestion.lineNumber] = newLineText],
                  suggestion |-> [suggestion EXCEPT !.lineText = ">" \o newLineText]]
            ELSE [failed |-> FALSE, files |-> files, suggestion |-> suggestion]

\* Lines 130-149: the forEach over the suggestions to commit that have more
\* than one candidate; `done` holds the suggestions handled so far.
RECURSIVE PatchSuggestions(_, _, _, _, _)
PatchSuggestions(files, suggestions, userId, ts, done) ==
    IF suggestions = <<>>
    THEN [failed |-> FALSE, files |-> files, suggestions |-> done]
    ELSE LET s == Head(suggestions) IN
         IF ~HasActiveThread(userId, ts, s) /\ Len(s.suggestions) > 1
         THEN LET p == PatchSuggestion(files, s) IN
              IF p.failed
              THEN [failed |-> TRUE, files |-> p.files,
                    suggestions |-> done \o suggestions]
              ELSE PatchSuggestions(p.files, Tail(suggestions), userId, ts,
                                    Append(done, p.suggestion))
         ELSE PatchSuggestions(files, Tail(suggestions), userId, ts, Append(done, s))

\* Mutant: the paths of all suggestions are committed.
FilePathsToCommitAll(userId, ts, fixed, suggestions) ==
    fixed \cup {suggestions[i].path : i \in 1..Len(suggestions)}

\* Lines 117-122: the paths of the files to commit.
FilePathsToCommit(userId, ts, fixed, suggestions) ==
    fixed \cup {suggestions[i].path :
                  i \in {j \in 1..Len(suggestions) :
                           ~HasActiveThread(userId, ts, suggestions[j])}}

\* The content of the checkout and of the source branch: the lines of the
\* files and .codespellrc.
Checkout(files, rc) == [files |-> files, rc |-> rc]

\* .codespellrc as its author wrote it ('skip = bin,obj'): the entries of
\* its [codespell] section; stringified tells that the bytes of the file are
\* the ones ini.stringify writes for these entries ('skip=bin,obj').
Rc(exists, hasSection, skip, ignoreWords) ==
    [exists |-> exists, hasSection |-> hasSection, skip |-> skip,
     ignoreWords |-> ignoreWords, stringified |-> FALSE]

\* fs.writeFileSync(configPath, ini.stringify(codeSpellConfigIni))
Stringified(rc) == [rc EXCEPT !.stringified = TRUE]

\* The files whose content differs from the checked out commit
\* (getModifiedFilePaths, git diff --name-only).
ModifiedPaths(work, head) ==
    {f \in DOMAIN work.files : work.files[f] # head.files[f]}
    \cup (IF work.rc # head.rc THEN {".codespellrc"} ELSE {})

\* fs.readFileSync(path) succeeds in the work tree.
Readable(work, path) ==
    \/ FileExists(work.files, path)
    \/ FileKey(path) = ".codespellrc" /\ work.rc.exists

\* Lines 167-171: the item paths of the changes of a push.
PushedItems(paths) == {normalizeDevOpsPath(p) : p \in paths}

\* The source branch after a push of the given paths from the work tree.
Pushed(branch, work, paths) ==
    [files |-> [f \in DOMAIN branch.files |->
                   IF \E p \in paths : FileKey(p) = f
                   THEN work.files[f] ELSE branch.files[f]],
     rc |-> IF \E p \in paths : FileKey(p) = ".codespellrc"
            THEN work.rc ELSE branch.rc]

\* ------------------------------------------------------------------------
\* CodespellRunner.run
\* ------------------------------------------------------------------------

\* What the tool does in one invocation: its exit code, the lines it
\* rewrote in place (write mode only) and the suggestions parsed from its
\* output.
ToolOutput(returnCode, fixes, suggestions) ==
    [returnCode |-> returnCode, fixes |-> fixes, suggestions |-> suggestions]

Fix(path, lineNumber, line) == [path |-> path, lineNumber |-> lineNumber, line |-> line]

\* The work tree after the tool rewrote the lines of `fixes`.
ApplyFixes(work, fixes) ==
    [work EXCEPT !.files =
        [f \in DOMAIN work.files |->
            [n \in 1..Len(work.files[f]) |->
                IF \E x \in fixes : FileKey(x.path) = f /\ x.lineNumber = n
                THEN (CHOOSE x \in fixes : FileKey(x.path) = f /\ x.lineNumber = n).line
                ELSE work.files[f][n]]]]

\* Lines 185-222 of codespellRunner.ts: the files the tool reports as FIXED
\* and the locally modified files make up `fixed`.
CodeSpellResult(out, work, head) ==
    [returnCode |-> out.returnCode,
     fixed |-> {x.path : x \in out.fixes} \cup ModifiedPaths(work, head),
     suggestions |-> out.suggestions]

\* The post-fix command of the modelled pipelines: a formatter that puts
\* blanks around the first '|' of a line, and ends every other line with a
\* full stop.
FormatLine(line) ==
    LET at == IndexOf(line, "|") IN
    IF at # -1
    THEN IF IndexOf(line, " | ") # -1 THEN line
         ELSE SubstringTo(line, at) \o " | " \o SubstringFrom(line, at + 1)
    ELSE IF EndsWith(line, ".") THEN line ELSE line \o "."

\* The work tree after the formatter went over its files.
Formatted(work) ==
    [work EXCEPT !.files =
        [f \in DOMAIN work.files |->
            [n \in 1..Len(work.files[f]) |-> FormatLine(work.files[f][n])]]]

\* runPostFixCommand (codespellRunner.ts 225-241) for a command of one
\* line, when the tool of the command is on the PATH: the command ends with
\* exit code 0, or with another exit code and execAsync throws, with the
\* files rewritten or not.
runPostFixCommand(work, postFixCommand) ==
    {[threw |-> FALSE, work |-> work], [threw |-> FALSE, work |-> Formatted(work)],
     [threw |-> TRUE, work |-> work], [threw |-> TRUE, work |-> Formatted(work)]}

\* index.ts 237-241 and codespellRunner.ts 134-190: run() waits for
\* CodespellRunner.run.  which("codespell", true) and which("pip", true)
\* throw when the tools are missing; otherwise the tool runs and ends; it
\* has rewritten the lines it fixed (--write-changes, in commit mode), and
\* the runner has yet to resume.
RunCodespell(r, outputs) ==
    /\ pc[r] = "codespell"
    /\ runner[r].phase = "none"
    /\ \/ /\ Throw(r)
          /\ UNCHANGED <<disk, runner>>
       \/ \E out \in outputs :
            /\ out.fixes # {} => config[r].commitSuggestions
            /\ \A x \in out.fixes :
                  /\ FileExists(disk[r].files, x.path)
                  /\ x.lineNumber \in 1..Len(disk[r].files[FileKey(x.path)])
            /\ disk' = [disk EXCEPT ![r] = ApplyFixes(disk[r], out.fixes)]
            /\ runner' = [runner EXCEPT ![r] =
                   [phase |-> "toolEnded", out |-> out,
                    postFixCommand |-> config[r].postFixCommand, threw |-> FALSE]]
            /\ UNCHANGED <<pc, result>>
    /\ UNCHANGED <<platformVars, config, prLock, codespell, inflight, base, pathsToPush,
                   hist, prev, started, lostUpdate, fnVars>>

\* codespellRunner.ts 192-196 and 225-241: the tool has ended, a post-fix
\* command is configured, a file was reported FIXED and the tool of the
\* command is on the PATH: the command runs and ends, and the runner has yet
\* to resume.
PostFixCommandRuns(r) ==
    /\ pc[r] # "killed"
    /\ runner[r].phase = "toolEnded"
    /\ runner[r].postFixCommand # ""
    /\ runner[r].out.fixes # {}
    /\ \E post \in runPostFixCommand(disk[r], runner[r].postFixCommand) :
          /\ disk' = [disk EXCEPT ![r] = post.work]
          /\ runner' = [runner EXCEPT ![r].phase = "postFixEnded",
                                      ![r].threw = post.threw]
    /\ UNCHANGED <<platformVars, pc, config, prLock, result, codespell, inflight, base,
                   pathsToPush, hist, prev, started, lostUpdate, fnVars>>

\* codespellRunner.ts 192-222 and index.ts 238-244: the runner resumes
\* after its last wait: after the tool when no post-fix command is due or
\* the tool of the command is not on the PATH (the command is skipped),
\* after the post-fix command otherwise.  A post-fix command that failed
\* throws into the catch block of run(); otherwise the result holds the
\* files reported FIXED and the locally modified files, and run() goes on.
RunnerReturns(r) ==
    /\ pc[r] = "codespell"
    /\ runner[r].phase # "none"
    /\ IF runner[r].threw
       THEN /\ Throw(r)
            /\ UNCHANGED <<codespell, hist>>
       ELSE /\ codespell' = [codespell EXCEPT ![r] =
                   CodeSpellResult(runner[r].out, disk[r], base[r])]
            /\ hist' = [hist EXCEPT ![r].found = runner[r].out.suggestions]
            /\ Continue(r, StepAfterCodespell(config[r]), runner[r].out.suggestions)
    /\ runner' = [runner EXCEPT ![r] = NoRunner]
    /\ UNCHANGED <<platformVars, config, prLock, inflight, disk, base, pathsToPush,
                   prev, started, lostUpdate, fnVars>>

\* index.ts 245-251, the commit step of run(): the argument of line 248
\* spreads codespell.modified, and the result of the runner has no such
\* member (ICodeSpellResult, codespellRunner.ts 7-11: returnCode, fixed,
\* suggestions; the modified files are part of fixed, lines 198-201).  The
\* spread of undefined throws a TypeError before the client is called, and
\* the catch block of run() gets it.
CommitSuggestions(r) ==
    /\ pc[r] = "commit"
    /\ Throw(r)
    /\ UNCHANGED <<platformVars, config, prLock, codespell, inflight, diskVars,
                   hist, prev, started, lostUpdate, fnVars>>

\* commitSuggestionsToPullRequest, lines 98-149, called on the client with
\* the fixed files and the suggestions of the result of the runner: the
\* pull request and its threads are read (either read may throw), the paths
\* to commit are computed, and the lines of the suggestions with several
\* candidates are rewritten in the work tree (reading a file may throw); the
\* suggestion objects of the caller get the rewritten lineText.  Every
\* failure is rethrown to the caller.
CommitRead(r) ==
    /\ pc[r] = "toolDone"
    /\ runner[r].phase = "none"
    /\ LET suggestions == codespell[r].suggestions
           paths == FilePathsToCommit(Me, threads, codespell[r].fixed, suggestions)
           patch == PatchSuggestions(disk[r].files, suggestions, Me, threads, <<>>)
       IN \/ /\ pc' = [pc EXCEPT ![r] = "committed"]
             /\ UNCHANGED <<codespell, disk, pathsToPush>>
          \/ /\ paths = {}
             /\ pc' = [pc EXCEPT ![r] = "committed"]
             /\ UNCHANGED <<codespell, disk, pathsToPush>>
          \/ /\ paths # {}
             /\ disk' = [disk EXCEPT ![r].files = patch.files]
             /\ codespell' = [codespell EXCEPT ![r].suggestions = patch.suggestions]
             /\ IF patch.failed
                THEN /\ pc' = [pc EXCEPT ![r] = "committed"]
                     /\ UNCHANGED pathsToPush
                ELSE /\ pc' = [pc EXCEPT ![r] = "commitPush"]
                     /\ pathsToPush' = [pathsToPush EXCEPT ![r] = paths]
    /\ UNCHANGED <<platformVars, config, prLock, result, inflight, base, runner, hist,
                   prev, started, lostUpdate, fnVars>>

\* commitSuggestionsToPullRequest, lines 151-187: the changed files of the
\* pull request are read (the read may throw), the files to commit are read
\* from the work tree (a file that is not there throws) and pushed to the
\* source branch (the push may be rejected).  Every failure is rethrown.
CommitPush(r) ==
    /\ pc[r] = "commitPush"
    /\ \/ UNCHANGED <<repo, hist>>
       \/ /\ \A p \in pathsToPush[r] : Readable(disk[r], p)
          /\ repo' = Pushed(repo, disk[r], pathsToPush[r])
          /\ hist' = [hist EXCEPT ![r].mutations = @ \cup {"createPush"},
                                  ![r].pushed = @ \cup {PushedItems(pathsToPush[r])}]
    /\ pc' = [pc EXCEPT ![r] = "committed"]
    /\ pathsToPush' = [pathsToPush EXCEPT ![r] = {}]
    /\ UNCHANGED <<lockProp, threads, config, prLock, result, codespell, inflight, disk,
                   base, runner, prev, started, lostUpdate, fnVars>>

\* CodespellRunner.run called in a fresh checkout of the source branch, with
\* no post-fix command or with the formatter, while calls started on the
\* client before may still be pending (lines 134-190): the call is rejected
\* when codespell and pip are missing (which("pip", true) throws; the caller
\* keeps what it had), or the tool runs and ends; it has rewritten the lines
\* it fixed, and the runner has yet to resume.
RunnerRun(r, outputs) ==
    /\ pc[r] \in {"idle", "committed", "commented"}
    /\ runner[r].phase = "none"
    /\ started < MaxRuns
    /\ \/ UNCHANGED vars
       \/ \E out \in outputs, postFixCommand \in {"", "fmt"} :
            /\ \A x \in out.fixes :
                  /\ FileExists(repo.files, x.path)
                  /\ x.lineNumber \in 1..Len(repo.files[FileKey(x.path)])
            /\ disk' = [disk EXCEPT ![r] = ApplyFixes(repo, out.fixes)]
            /\ base' = [base EXCEPT ![r] = repo]
            /\ runner' = [runner EXCEPT ![r] =
                   [phase |-> "toolEnded", out |-> out,
                    postFixCommand |-> postFixCommand, threw |-> FALSE]]
            /\ started' = started + 1
            /\ UNCHANGED <<platformVars, pc, config, prLock, result, codespell,
                           inflight, pathsToPush, hist, prev, lostUpdate, fnVars>>

\* CodespellRunner.run returns to the caller (lines 192-222), after the
\* tool when no post-fix command ran, after the post-fix command otherwise:
\* the result holds the files reported FIXED, the locally modified files
\* and the suggestions.  When the post-fix command failed the call is
\* rejected and the caller has no result.
RunnerRunReturns(r) ==
    /\ pc[r] \in {"idle", "committed", "commented"}
    /\ runner[r].phase # "none"
    /\ IF runner[r].threw
       THEN /\ codespell' = [codespell EXCEPT ![r] = NoCodespell]
            /\ hist' = [hist EXCEPT ![r] = NoHist]
            /\ pc' = [pc EXCEPT ![r] = "idle"]
       ELSE /\ codespell' = [codespell EXCEPT ![r] =
                   CodeSpellResult(runner[r].out, disk[r], base[r])]
            /\ hist' = [hist EXCEPT ![r] =
                   [NoHist EXCEPT !.found = runner[r].out.suggestions]]
            /\ pc' = [pc EXCEPT ![r] = "toolDone"]
    /\ prev' = [prev EXCEPT ![r] =
           [clean |-> hist[r].commented /\ ~hist[r].opFailed /\ ~hist[r].overlapped
                         /\ inflight[r] = <<>>,
            lost |-> hist[r].commented /\ hist[r].opFailed /\ hist[r].pushed # {}
                        /\ ~hist[r].overlapped /\ inflight[r] = <<>>,
            found |-> hist[r].found]]
    /\ runner' = [runner EXCEPT ![r] = NoRunner]
    /\ UNCHANGED <<platformVars, config, prLock, result, inflight, disk, base,
                   pathsToPush, started, lostUpdate, fnVars>>

\* commentSuggestionsOnPullRequest, lines 189-290, called on the client with
\* the suggestions of the result of the runner, before or after the commit
\* method: a failing read is rethrown to the caller; otherwise the calls of
\* the two forEach loops are started and not awaited.
commentSuggestionsOnPullRequest(r) ==
    /\ pc[r] \in {"toolDone", "committed"}
    /\ runner[r].phase = "none"
    /\ \/ UNCHANGED <<inflight, hist>>
       \/ LET ops == ReconcileOps(Me, threads, codespell[r].suggestions,
                                  getChangedFilePathsForPullRequest)
          IN /\ inflight' = [inflight EXCEPT ![r] = @ \o ops]
             /\ hist' = [hist EXCEPT ![r].commented = TRUE,
                                     ![r].overlapped =
                                         \E i \in DOMAIN inflight[r] :
                                             inflight[r][i].op # "createLike",
                                     ![r].launched = Len(ops),
                                     ![r].mutations = @ \cup OpKinds(ops)]
    /\ pc' = [pc EXCEPT ![r] = "commented"]
    /\ UNCHANGED <<platformVars, config, prLock, result, codespell, diskVars, prev,
                   started, lostUpdate, fnVars>>

\* ------------------------------------------------------------------------
\* CodespellCommandProcessor (src/unnamed/part_004)
\* ------------------------------------------------------------------------

commandPrefix == "@codespell"

\* path.sep of the agent.
PathSep == "/"

\* getCodeCommentDelimiters: the table rows for the extensions of the
\* modelled files, and the default row.
getCodeCommentDelimiters(filePath) ==
    LET fileExtension == ToLowerCase(Last(Split(filePath, ".")))
    IN IF fileExtension \in {"htm", "html", "xml", "md", "rmd"}
       THEN [start |-> "<!--", end |-> "-->"]
       ELSE IF fileExtension \in {"py", "rb", "sh", "yaml", "yml"}
       THEN [start |-> "#", end |-> ""]
       ELSE IF fileExtension \in {"css", "scss", "c"}
       THEN [start |-> "/*", end |-> "*/"]
       ELSE [start |-> "//", end |-> ""]

\* The inline comment patchFileWithInlineComment appends; word is "" for null.
CodespellIgnoreComment(filePath, word) ==
    LET d == getCodeCommentDelimiters(filePath)
        codespellIgnore == Trim("codespell:ignore " \o word)
    IN Trim(d.start \o " " \o codespellIgnore \o " " \o d.end)

\* The outcome of a mutation: whether it reports success and the work tree.
Patched(ok, work) == [ok |-> ok, work |-> work]

\* patchFileWithInlineComment; word is "" for null.
patchFileWithInlineComment(work, filePath, lineNumber, word) ==
    IF ~FileExists(work.files, filePath)
          \/ lineNumber \notin 1..Len(work.files[FileKey(filePath)])
    THEN Patched(FALSE, work)
    ELSE LET key == FileKey(filePath)
             line == work.files[key][lineNumber]
             comment == CodespellIgnoreComment(filePath, word)
         IN IF EndsWith(line, comment)
            THEN Patched(FALSE, work)
            ELSE Patched(TRUE, [work EXCEPT !.files[key][lineNumber] =
                                    line \o " " \o comment])

\* (value || '').split(',').filter(s => s.trim().length > 0).concat(add).join(',')
AppendToList(value, add) ==
    JoinWith(SelectSeq(Split(value, ","), LAMBDA e : Len(Trim(e)) > 0) \o <<add>>, ",")

\* Mutant: a config that cannot be patched is reported as patched.
patchCodespellConfigReportsSuccess(work, addSkipPattern, addIgnoreWord) ==
    IF \/ ~work.rc.exists
       \/ ~work.rc.hasSection /\ (addSkipPattern # "" \/ addIgnoreWord # "")
    THEN Patched(TRUE, work)
    ELSE Patched(TRUE,
            [work EXCEPT !.rc = Stringified(
                [@ EXCEPT
                    !.skip = IF addSkipPattern # ""
                             THEN AppendToList(@, addSkipPattern) ELSE @,
                    !.ignoreWords = IF addIgnoreWord # ""
                                    THEN AppendToList(@, addIgnoreWord) ELSE @])])

\* patchCodespellConfig; "" stands for a null or empty argument.  It throws,
\* and returns false, when the file is missing, or when an entry is to be set
\* and the file has no [codespell] section; otherwise the file is written
\* again by ini.stringify, also when no entry was added.
patchCodespellConfig(work, addSkipPattern, addIgnoreWord) ==
    IF \/ ~work.rc.exists
       \/ ~work.rc.hasSection /\ (addSkipPattern # "" \/ addIgnoreWord # "")
    THEN Patched(FALSE, work)
    ELSE Patched(TRUE,
            [work EXCEPT !.rc = Stringified(
                [@ EXCEPT
                    !.skip = IF addSkipPattern # ""
                             THEN AppendToList(@, addSkipPattern) ELSE @,
                    !.ignoreWords = IF addIgnoreWord # ""
                                    THEN AppendToList(@, addIgnoreWord) ELSE @])])

\* processIgnoreCommand
processIgnoreCommand(work, ignoreTarget, suggestion) ==
    CASE ignoreTarget = "this" ->
            patchFileWithInlineComment(work, suggestion.path, suggestion.lineNumber,
                                       suggestion.word)
      [] ignoreTarget = "line" ->
            patchFileWithInlineComment(work, suggestion.path, suggestion.lineNumber, "")
      [] ignoreTarget = "word" ->
            patchCodespellConfig(work, "", suggestion.word)
      [] ignoreTarget = "file" ->
            patchCodespellConfig(work, suggestion.path, "")
      [] ignoreTarget = "file-type" ->
            patchCodespellConfig(work, "*." \o Last(Split(suggestion.path, ".")), "")
      [] ignoreTarget = "dir" ->
            patchCodespellConfig(work,
                JoinWith(SpliceRemoved(Split(suggestion.path, PathSep), 0, -1), PathSep)
                    \o PathSep \o "*", "")
      [] OTHER ->
            patchCodespellConfig(work, ignoreTarget, "")

\* Mutant: the command is executed and reported as not handled.
processCommandsUnhandled(work, content, suggestion) ==
    IF StartsWith(content, commandPrefix)
    THEN Patched(FALSE, processIgnoreCommand(work, "file", suggestion).work)
    ELSE Patched(FALSE, work)

\* The tokens of the command in the content of a comment.
CommandOf(content) ==
    MapSeq(LAMBDA c : ToLowerCase(Trim(c)),
           Split(Trim(SubstringFrom(content, Len(commandPrefix))), " "))

\* Mutant: every first token is taken for the ignore command.
processCommandsAnyCommand(work, content, suggestion) ==
    IF ~StartsWith(content, commandPrefix)
    THEN Patched(FALSE, work)
    ELSE LET command == CommandOf(content)
         IN processIgnoreCommand(work, IF Len(command) > 1 THEN command[2] ELSE "this",
                                 suggestion)

\* processCommands: whether the comment was handled, and the work tree.
processCommands(work, content, suggestion) ==
    IF ~StartsWith(content, commandPrefix)
    THEN Patched(FALSE, work)
    ELSE LET command == CommandOf(content) IN
         IF Len(command) = 0 THEN Patched(FALSE, work)
         ELSE IF command[1] = "ignore"
         THEN processIgnoreCommand(work, IF Len(command) > 1 THEN command[2] ELSE "this",
                                   suggestion)
         ELSE Patched(FALSE, work)

\* ------------------------------------------------------------------------
\* processCommandsInCommentsForPullRequest, release, pending calls
\* ------------------------------------------------------------------------

\* Mutant: the comments of every active thread are processed.
CommentPairsAllThreads(ts) ==
    LET ids == Ascending(ActiveThreadIds(ts))
        pairsOf(id) == [c \in 1..Len(ts[id].comments) |-> <<id, c>>]
        RECURSIVE Flatten(_)
        Flatten(list) == IF list = <<>> THEN <<>>
                         ELSE pairsOf(Head(list)) \o Flatten(Tail(list))
    IN Flatten(ids)

\* The (thread id, comment id) pairs in the order of the two forEach loops:
\* active threads that carry a suggestion, and every comment of them.
CommentPairs(ts) ==
    LET ids == Ascending({id \in ActiveThreadIds(ts) :
                             getSuggestionFromThread(ts[id]) # NoProperty})
        pairsOf(id) == [c \in 1..Len(ts[id].comments) |-> <<id, c>>]
        RECURSIVE Flatten(_)
        Flatten(list) == IF list = <<>> THEN <<>>
                         ELSE pairsOf(Head(list)) \o Flatten(Tail(list))
    IN Flatten(ids)

\* Mutant: comments the caller already liked are processed again.
IsUnprocessedAlways(userId, comment) == TRUE

\* Line 310: the comment was not reacted to by our user.
IsUnprocessed(userId, comment) == userId \notin comment.usersLiked

\* Lines 300-327 for the given pairs: the work tree after the commands and
\* the createLike calls that are started.
RECURSIVE ProcessPairs(_, _, _, _, _)
ProcessPairs(userId, ts, pairs, work, ops) ==
    IF pairs = <<>> THEN [work |-> work, ops |-> ops]
    ELSE LET id == Head(pairs)[1]
             c == Head(pairs)[2]
             comment == ts[id].comments[c]
         IN IF ~IsUnprocessed(userId, comment)
            THEN ProcessPairs(userId, ts, Tail(pairs), work, ops)
            ELSE LET res == processCommands(work, comment.content,
                                            getSuggestionFromThread(ts[id])[1])
                 IN ProcessPairs(userId, ts, Tail(pairs), res.work,
                                 IF res.ok /\ id # 0 /\ c # 0
                                 THEN Append(ops, Op("createLike", id, c, <<>>))
                                 ELSE ops)

\* index.ts 230-235: the command step.  Listing the threads may throw.
ProcessCommands(r) ==
    /\ pc[r] = "commands"
    /\ \/ /\ Throw(r)
          /\ UNCHANGED <<inflight, disk, hist>>
       \/ LET done == ProcessPairs(Me, threads, CommentPairs(threads), disk[r], <<>>)
          IN /\ disk' = [disk EXCEPT ![r] = done.work]
             /\ inflight' = [inflight EXCEPT ![r] = @ \o done.ops]
             /\ hist' = [hist EXCEPT ![r].mutations = @ \cup OpKinds(done.ops)]
             /\ pc' = [pc EXCEPT ![r] = "codespell"]
             /\ UNCHANGED result
    /\ UNCHANGED <<platformVars, config, prLock, codespell, base, pathsToPush, runner,
                   prev, started, lostUpdate, fnVars>>

\* index.ts 280-284 and releaseLockForPullRequest: the property is removed,
\* whatever it holds; a failure is logged.
ReleaseLock(r) ==
    /\ pc[r] = "release"
    /\ \E ok \in BOOLEAN : lockProp' = IF ok THEN Absent ELSE lockProp
    /\ pc' = [pc EXCEPT ![r] = "done"]
    /\ hist' = [hist EXCEPT ![r].releaseAttempted = TRUE]
    /\ UNCHANGED <<threads, repo, config, prLock, result, codespell,
                   inflight, diskVars, prev, started, lostUpdate, fnVars>>

\* The platform after it served a call.
Served(ts, op) ==
    CASE op.op = "createThread" -> Append(ts, op.thread[1])
      [] op.op = "updateThread" -> [ts EXCEPT ![op.threadId].status = Fixed]
      [] op.op = "createLike" ->
            [ts EXCEPT ![op.threadId].comments[op.commentId].usersLiked = @ \cup {Me}]

Without(list, i) == SubSeq(list, 1, i - 1) \o SubSeq(list, i + 1, Len(list))

\* A call that run r started without awaiting it reaches the platform and is
\* served, or fails; nothing in run() observes either outcome.
CompleteCall(r) ==
    /\ pc[r] # "killed"
    /\ \E i \in 1..Len(inflight[r]), ok \in BOOLEAN :
        /\ inflight' = [inflight EXCEPT ![r] = Without(@, i)]
        /\ IF ok
           THEN /\ threads' = Served(threads, inflight[r][i])
                /\ UNCHANGED hist
           ELSE /\ hist' = [hist EXCEPT ![r].opFailed = TRUE]
                /\ UNCHANGED threads
    /\ UNCHANGED <<lockProp, repo, pc, config, prLock, result, codespell,
                   diskVars, prev, started, lostUpdate, fnVars>>

\* The process of run r is terminated while run() executes (cancelled job,
\* agent lost, crash of the runtime): nothing of run() executes any more.
Kill(r) ==
    /\ pc[r] \notin {"idle", "done", "killed"}
    /\ pc' = [pc EXCEPT ![r] = "killed"]
    /\ inflight' = [inflight EXCEPT ![r] = <<>>]
    /\ hist' = [hist EXCEPT ![r].opFailed = @ \/ inflight[r] # <<>>]
    /\ UNCHANGED <<platformVars, config, prLock, result, codespell, diskVars, prev,
                   started, lostUpdate, fnVars>>

\* ------------------------------------------------------------------------
\* Specifications
\* ------------------------------------------------------------------------

\* The findings the tool reports in the modelled behaviours.
F_teh == [path |-> "a/b", lineNumber |-> 1, lineText |-> "teh fox", word |-> "teh",
          suggestions |-> <<"the", "ten">>]
F_wrod == [path |-> "./a/b", lineNumber |-> 2, lineText |-> "a wrod", word |-> "wrod",
           suggestions |-> <<"word">>]
F_c == [path |-> "c", lineNumber |-> 1, lineText |-> "abd", word |-> "abd",
        suggestions |-> <<"and", "bad">>]

\* The source branch when the first run starts.
Repo0 ==
    Checkout([f \in {"a/b", "c"} |->
                 IF f = "a/b" THEN <<"teh fox", "a wrod">> ELSE <<"abd">>],
             Rc(TRUE, TRUE, "bin,obj", ""))

\* A thread the engine opened in an earlier run for a finding.
ThreadFor(userId, suggestion) == NewThread(userId, suggestion)

\* A thread opened by another user, not by the engine; its comment reads
\* like a command.
UserThread ==
    Thread(FALSE, Active, <<Comment(Other, "@codespell ignore *.md", {})>>,
           ThreadContext("/a/b", 1, 0, 3), NoProperty)

InitPlatform(threadLists) ==
    /\ lockProp = Absent
    /\ threads \in threadLists
    /\ repo = Repo0

InitFnNone ==
    /\ fnIn = NoFn
    /\ fnOut = <<>>

\* Two pipeline runs at a time on the pull request.  No pipeline of these
\* behaviours configures a post-fix command, so the runner waits for the
\* tool only.
LockEnvs ==
    {Env("org", "7", j, <<commit, comment, FALSE, FALSE>>, TRUE, <<FALSE, FALSE, FALSE>>) :
        j \in JobIds, commit \in BOOLEAN, comment \in {TRUE}}

LockOutputs ==
    {ToolOutput(0, {}, <<>>), ToolOutput(65, {}, <<F_teh>>)}

LockThreads == {<<ThreadFor(Me, F_wrod)>>}

Init ==
    /\ InitPlatform(LockThreads)
    /\ InitRuns
    /\ InitFnNone

Next ==
    \E r \in Runs :
        \/ Start(r, LockEnvs)
        \/ AcquireRead(r)
        \/ AcquireWrite(r)
        \/ ProcessCommands(r)
        \/ RunCodespell(r, LockOutputs)
        \/ RunnerReturns(r)
        \/ CommitSuggestions(r)
        \/ CommentSuggestions(r)
        \/ ReleaseLock(r)
        \/ CompleteCall(r)
        \/ Kill(r)

Spec == Init /\ [][Next]_vars

\* One pipeline run after the other on the pull request, with every
\* configuration of the task.
Reply(thread, author, content) ==
    [thread EXCEPT !.comments = Append(@, Comment(author, content, {}))]

SeqEnvs ==
    {Env("org", "7", j, <<commit, comment, FALSE, FALSE>>, TRUE, <<FALSE, FALSE, FALSE>>) :
        j \in JobIds, commit \in BOOLEAN, comment \in BOOLEAN}
    \cup {Env("org", "7", "j1", <<FALSE, TRUE, TRUE, FALSE>>, TRUE, <<FALSE, FALSE, FALSE>>),
          Env("", "7", "j1", <<TRUE, TRUE, FALSE, FALSE>>, TRUE, <<FALSE, FALSE, FALSE>>),
          Env("org", "", "j1", <<TRUE, TRUE, TRUE, FALSE>>, TRUE, <<FALSE, FALSE, FALSE>>),
          Env("org", "7", "j1", <<TRUE, TRUE, FALSE, TRUE>>, FALSE, <<FALSE, FALSE, FALSE>>),
          WithPostFixCommand(
              Env("org", "7", "j1", <<TRUE, TRUE, FALSE, FALSE>>, TRUE, <<FALSE, FALSE, FALSE>>),
              "fmt"),
          WithPostFixCommand(
              Env("org", "", "j1", <<TRUE, FALSE, FALSE, FALSE>>, TRUE, <<FALSE, FALSE, FALSE>>),
              "fmt")}

SeqOutputs ==
    {ToolOutput(0, {}, <<>>),
     ToolOutput(65, {}, <<F_teh>>),
     ToolOutput(65, {}, <<F_teh, F_wrod>>),
     ToolOutput(65, {}, <<F_teh, F_teh>>),
     ToolOutput(65, {}, <<F_c>>),
     ToolOutput(65, {Fix("a/b", 2, "a word")}, <<F_teh>>)}

SeqThreads ==
    {<<>>,
     <<ThreadFor(Me, F_wrod)>>,
     <<ThreadFor(Other, F_teh)>>,
     <<UserThread, Reply(ThreadFor(Me, F_teh), Other, "@codespell ignore word")>>}

\* The source branch without .codespellrc.
RepoNoRc == [Repo0 EXCEPT !.rc = Rc(FALSE, FALSE, "", "")]

InitSeq ==
    /\ \/ InitPlatform(SeqThreads)
       \/ /\ lockProp = Absent
          /\ threads = <<>>
          /\ repo = RepoNoRc
    /\ InitRuns
    /\ InitFnNone

NextSeq ==
    \/ Start(1, SeqEnvs)
    \/ AcquireRead(1)
    \/ AcquireWrite(1)
    \/ ProcessCommands(1)
    \/ RunCodespell(1, SeqOutputs)
    \/ PostFixCommandRuns(1)
    \/ RunnerReturns(1)
    \/ CommitSuggestions(1)
    \/ CommentSuggestions(1)
    \/ ReleaseLock(1)
    \/ CompleteCall(1)
    \/ Kill(1)

SpecSeq == InitSeq /\ [][NextSeq]_vars

\* The client used on its own: a caller that, round after round, runs the
\* tool in a checkout of the source branch and calls the commit method, the
\* comment method, or the one after the other, while calls of earlier
\* rounds may still be pending.  run() does not get to the commit method
\* (CommitSuggestions); this specification is the one that calls it.
ClientOutputs ==
    {ToolOutput(0, {}, <<>>),
     ToolOutput(65, {}, <<F_teh>>),
     ToolOutput(65, {}, <<F_teh, F_teh>>),
     ToolOutput(65, {}, <<F_c>>),
     ToolOutput(65, {Fix("a/b", 2, "a word")}, <<F_teh>>),
     ToolOutput(65, {Fix("a/b", 2, "a word")}, <<F_c>>)}

\* The pull request has no threads when the caller starts, or a thread of
\* another user and a thread of the engine with a reply.
InitClient ==
    /\ InitPlatform({<<>>,
                     <<UserThread,
                       Reply(ThreadFor(Me, F_teh), Other, "@codespell ignore word")>>})
    /\ InitRuns
    /\ InitFnNone

NextClient ==
    \/ RunnerRun(1, ClientOutputs)
    \/ PostFixCommandRuns(1)
    \/ RunnerRunReturns(1)
    \/ CommitRead(1)
    \/ CommitPush(1)
    \/ commentSuggestionsOnPullRequest(1)
    \/ CompleteCall(1)

SpecClient == InitClient /\ [][NextClient]_vars

\* isThreadForSuggestion applied to every combination of the inputs.
InitMatch ==
    /\ InitPlatform({<<>>})
    /\ InitRuns
    /\ fnIn \in [fn : {"isThreadForSuggestion"}, userId : {Me, Other},
                 thread : FnThreads, suggestion : FnSuggestions]
    /\ fnOut = <<>>

ApplyIsThreadForSuggestion ==
    /\ fnIn.fn = "isThreadForSuggestion"
    /\ fnOut = <<>>
    /\ fnOut' = <<isThreadForSuggestion(fnIn.userId, fnIn.thread, fnIn.suggestion)>>
    /\ UNCHANGED <<platformVars, pc, config, prLock, result, codespell, inflight,
                   diskVars, hist, prev, started, lostUpdate, fnIn>>

NextMatch == ApplyIsThreadForSuggestion

SpecMatch == InitMatch /\ [][NextMatch]_vars

\* ------------------------------------------------------------------------
\* Properties
\* ------------------------------------------------------------------------

\* Run r is between a successful acquire and the end of its release.
Holding(r) ==
    /\ pc[r] \in {"commands", "codespell", "commit", "commitPush", "comment", "release"}
    /\ prLock[r].set
    /\ prLock[r].wasAcquired

\* C1: when the comment step runs again with the finding list of the
\* previous run, and the previous run read the threads with no earlier
\* thread call pending and ended with every call it started served, the
\* comment step starts no thread creation and no status update.
C1_RerunStartsNothing ==
    \A r \in Runs :
        (hist[r].commented /\ prev[r].clean /\ prev[r].found = hist[r].found)
            => hist[r].launched = 0

\* C1 witness: a second run over the same non-empty finding list, with a
\* thread of the first run matching it, has run its comment step.
C1_Witness ==
    \E r \in Runs :
        /\ hist[r].commented /\ prev[r].clean
        /\ prev[r].found = hist[r].found
        /\ hist[r].found # <<>>
        /\ HasActiveThread(Me, threads, hist[r].found[1])
        /\ hist[r].launched = 0

\* C2 (as stated): two runs with different job ids never hold the lock at
\* the same time.
C2_MutualExclusion ==
    \A r1, r2 \in Runs :
        (r1 # r2 /\ config[r1].jobId # config[r2].jobId)
            => ~(Holding(r1) /\ Holding(r2))

\* C2 (amended): two runs with different job ids hold the lock at the same
\* time only after an acquire wrote the property over a value that another
\* run had written since that acquire read it as absent.
C2_ExclusionUnlessLostUpdate ==
    \A r1, r2 \in Runs :
        (r1 # r2 /\ config[r1].jobId # config[r2].jobId
            /\ Holding(r1) /\ Holding(r2))
            => lostUpdate

\* C2 witness: one run holds the lock and the other was turned away by it.
C2_Witness ==
    \E r1, r2 \in Runs :
        /\ r1 # r2
        /\ Holding(r1)
        /\ hist[r2].readExisting = config[r1].jobId
        /\ config[r2].jobId # config[r1].jobId
        /\ prLock[r2] = Lock(FALSE, config[r1].jobId)
        /\ ~lostUpdate

\* C3: a run that started a push, a thread creation, a status update or a
\* like got acquired=true with its own job id from acquire; a run whose
\* acquire reported anything else is done with result Skipped.
C3_MutationsOnlyWithLock ==
    \A r \in Runs :
        /\ (hist[r].mutations # {} \/ inflight[r] # <<>>)
              => (prLock[r].set /\ prLock[r].wasAcquired
                  /\ prLock[r].ownerJobId = config[r].jobId)
        /\ (prLock[r].set /\ ~(prLock[r].wasAcquired
                               /\ prLock[r].ownerJobId = config[r].jobId))
              => (result[r] = "Skipped" /\ pc[r] = "done" /\ hist[r].mutations = {})

\* C3 witness: a run without the lock is skipped while the holder has
\* started mutations.
C3_Witness ==
    \E r1, r2 \in Runs :
        /\ hist[r1].mutations # {}
        /\ prLock[r2].set /\ ~prLock[r2].wasAcquired
        /\ result[r2] = "Skipped"

\* C4: a run whose run() has returned attempted the release exactly if its
\* acquire reported acquired=true, and no run attempts a release without.
C4_ReleaseIffAcquired ==
    \A r \in Runs :
        /\ pc[r] = "done"
              => (hist[r].releaseAttempted <=> (prLock[r].set /\ prLock[r].wasAcquired))
        /\ hist[r].releaseAttempted => (prLock[r].set /\ prLock[r].wasAcquired)

\* C4 witness: a failed run (exception in the try block) released the lock
\* it had acquired.
C4_Witness ==
    \E r \in Runs :
        /\ pc[r] = "done" /\ result[r] = "Failed"
        /\ prLock[r].wasAcquired /\ hist[r].releaseAttempted

\* C5 (as stated): when run() has released the lock and returned, no call it
\* started is still pending.
C5_NothingPendingAfterRelease ==
    \A r \in Runs : hist[r].releaseAttempted => inflight[r] = <<>>

\* C6: when acquire read the property as absent and its write succeeded, it
\* reports acquired=true with the caller's id, the run is not skipped, and
\* (one run at a time) the property holds the caller's id while it works.
C6_AcquireAbsent ==
    \A r \in Runs :
        (hist[r].readExisting = Absent /\ prLock[r].set /\ prLock[r] # AcquireFailed)
            => /\ prLock[r] = Lock(TRUE, config[r].jobId)
               /\ result[r] # "Skipped"
               /\ Holding(r) => lockProp = config[r].jobId

\* C6 witness: a run works under a lock it wrote itself.
C6_Witness ==
    \E r \in Runs :
        /\ hist[r].readExisting = Absent /\ Holding(r)
        /\ lockProp = config[r].jobId

\* C7: acquire that reads the caller's own id reports acquired=true with
\* that id, writes nothing and the run proceeds.
C7_Reentrant ==
    \A r \in Runs :
        (prLock[r].set /\ hist[r].readExisting = config[r].jobId)
            => /\ prLock[r] = Lock(TRUE, config[r].jobId)
               /\ result[r] # "Skipped"

\* C7 witness: the pull request started unlocked, an earlier acquire with
\* this id wrote the property, and a second acquire with the same id holds.
C7_Witness ==
    \E r \in Runs :
        /\ hist[r].readExisting = config[r].jobId
        /\ hist[r].staleAtStart = config[r].jobId
        /\ Holding(r)

\* C8: acquire that reads a foreign id reports acquired=false with that id,
\* and the run is done with result Skipped.
C8_ForeignSkips ==
    \A r \in Runs :
        (prLock[r].set /\ hist[r].readExisting \notin {Absent, Undefined, config[r].jobId})
            => /\ prLock[r] = Lock(FALSE, hist[r].readExisting)
               /\ pc[r] = "done"
               /\ result[r] = "Skipped"

\* C8 witness: a run was skipped because of a foreign id.
C8_Witness ==
    \E r \in Runs :
        /\ prLock[r].set
        /\ hist[r].readExisting \in JobIds \ {config[r].jobId}
        /\ result[r] = "Skipped"

\* C9: a run whose acquire reads a foreign id ends Skipped in that step and
\* leaves the property as it is; and a step that replaces or removes a value
\* of the property is never a step of a run whose acquire had read a foreign
\* id, so no run that comes after a stale value ever touches it.
C9_StaleLockBlocks ==
    [][\A r \in Runs :
          /\ (pc[r] = "acquire" /\ pc'[r] \notin {"acquire", "killed"}
                /\ hist'[r].readExisting \notin {Absent, Undefined, config[r].jobId})
                => (lockProp' = lockProp /\ pc'[r] = "done" /\ result'[r] = "Skipped")
          /\ (pc'[r] # pc[r] /\ lockProp # Absent /\ lockProp' # lockProp)
                => hist[r].readExisting \in {Absent, config[r].jobId}
      ]_vars

\* C9 witness: a run found the lock of a run that is no longer alive when it
\* started, and was skipped, the property still holding that id.
C9_Witness ==
    \E r \in Runs :
        /\ hist[r].staleAtStart \in JobIds \ {config[r].jobId}
        /\ hist[r].readExisting = hist[r].staleAtStart
        /\ result[r] = "Skipped"
        /\ lockProp = hist[r].staleAtStart

\* C10: isThreadForSuggestion is true exactly when the thread is not
\* deleted, is Active, has a comment of the given user, carries a suggestion
\* property, and that suggestion has the path, line number and word of the
\* candidate; line text and candidates are not compared.
C10_MatchIff ==
    fnOut # <<>> =>
        (fnOut[1] <=>
            /\ ~fnIn.thread.isDeleted
            /\ fnIn.thread.status = Active
            /\ \E i \in DOMAIN fnIn.thread.comments :
                  fnIn.thread.comments[i].author = fnIn.userId
            /\ fnIn.thread.suggestionProperty # NoProperty
            /\ \E s \in FnSuggestions :
                  /\ fnIn.thread.suggestionProperty = JSONstringify(s)
                  /\ s.path = fnIn.suggestion.path
                  /\ s.lineNumber = fnIn.suggestion.lineNumber
                  /\ s.word = fnIn.suggestion.word)

\* C10 witness: a match between a thread and a candidate that differ in
\* line text and in candidates.
C10_Witness ==
    /\ fnOut = <<TRUE>>
    /\ fnIn.thread.suggestionProperty[1].lineText # fnIn.suggestion.lineText
    /\ fnIn.thread.suggestionProperty[1].suggestions # fnIn.suggestion.suggestions

\* C11 (as stated): a live Active thread of the user whose embedded finding
\* has the same line and word as the candidate, and a path that is the same
\* after normalizeDevOpsPath, matches the candidate.
C11_MatchesNormalizedPaths ==
    (/\ fnOut # <<>>
     /\ ~fnIn.thread.isDeleted
     /\ fnIn.thread.status = Active
     /\ \E i \in DOMAIN fnIn.thread.comments :
           fnIn.thread.comments[i].author = fnIn.userId
     /\ fnIn.thread.suggestionProperty # NoProperty
     /\ normalizeDevOpsPath(fnIn.thread.suggestionProperty[1].path)
           = normalizeDevOpsPath(fnIn.suggestion.path)
     /\ fnIn.thread.suggestionProperty[1].lineNumber = fnIn.suggestion.lineNumber
     /\ fnIn.thread.suggestionProperty[1].word = fnIn.suggestion.word)
    => fnOut[1]

\* The findings a created thread is compared with: the finding itself and
\* the findings that differ from it in the path, the line or the word.
Probes(F) ==
    [path : {F.path, "x/y"},
     lineNumber : {F.lineNumber, F.lineNumber + 1},
     lineText : {F.lineText, "other"},
     word : {F.word, getWordPlaceholderTextForSuggestion(F)},
     suggestions : {F.suggestions, <<"other">>}]

\* Thread t was created from a finding with the path, line, word and
\* candidates of F, and matches exactly the findings with F's path, line
\* and word.
EmbedsAndMatches(t, F) ==
    LET e == JSONparse(t.suggestionProperty) IN
    /\ e.path = F.path
    /\ e.lineNumber = F.lineNumber
    /\ e.word = F.word
    /\ e.suggestions = F.suggestions
    /\ \A G \in Probes(F) :
          isThreadForSuggestion(Me, t, G)
              <=> (G.path = F.path /\ G.lineNumber = F.lineNumber /\ G.word = F.word)

\* C12: every thread the comment method hands to createThread embeds the
\* path, the line number, the word and the candidates of a finding the tool
\* reported (never the placeholder text, also after the commit method
\* rewrote the line), and matches a finding exactly when path, line and
\* word are those of that finding.
C12_ThreadEmbedsFinding ==
    [][\A r \in Runs :
          (~hist[r].commented /\ hist'[r].commented)
              => \A i \in DOMAIN inflight'[r] :
                    (i > Len(inflight[r]) /\ inflight'[r][i].op = "createThread")
                        => \E k \in DOMAIN hist[r].found :
                              EmbedsAndMatches(inflight'[r][i].thread[1],
                                               hist[r].found[k])]_vars

\* C12 witness: a thread is being created for a finding whose line the
\* commit method rewrote with the placeholder and pushed.
C12_Witness ==
    \E r \in Runs : \E i \in DOMAIN inflight[r] :
        /\ inflight[r][i].op = "createThread"
        /\ hist[r].pushed # {}
        /\ \E k \in DOMAIN hist[r].found :
              LET F == hist[r].found[k]
                  e == JSONparse(inflight[r][i].thread[1].suggestionProperty)
              IN /\ EmbedsAndMatches(inflight[r][i].thread[1], F)
                 /\ e.lineText # F.lineText
                 /\ IndexOf(e.lineText, getWordPlaceholderTextForSuggestion(F)) # -1

\* C13: every thread a run hands to createThread, and every engine thread of
\* the pull request, is for a finding whose normalized path is among the
\* files the pull request added or edited.
C13_NoThreadOutsideChangedFiles ==
    /\ \A r \in Runs : \A i \in DOMAIN inflight[r] :
          inflight[r][i].op = "createThread"
              => normalizeDevOpsPath(
                     JSONparse(inflight[r][i].thread[1].suggestionProperty).path)
                    \in getChangedFilePathsForPullRequest
    /\ \A id \in DOMAIN threads :
          threads[id].suggestionProperty # NoProperty
              => normalizeDevOpsPath(JSONparse(threads[id].suggestionProperty).path)
                    \in getChangedFilePathsForPullRequest

\* C13 witness: the comment step ran over a finding in a file the pull
\* request does not change, no thread matches the finding, and the step
\* started no call.
C13_Witness ==
    \E r \in Runs :
        /\ hist[r].commented
        /\ hist[r].found = <<F_c>>
        /\ normalizeDevOpsPath(F_c.path) \notin getChangedFilePathsForPullRequest
        /\ ~HasActiveThread(Me, threads, F_c)
        /\ hist[r].launched = 0
        /\ inflight[r] = <<>>

\* C14 (as stated, its second half): a thread that is resolved receives no
\* further status update: as long as no acquire has overwritten the lock of
\* another run, no updateThread call is pending for a thread that is not
\* Active any more.
C14_NoUpdateOfResolvedThread ==
    \A r \in Runs : \A i \in DOMAIN inflight[r] :
        (inflight[r][i].op = "updateThread" /\ ~lostUpdate)
            => threads[inflight[r][i].threadId].status = Active

\* Run r is a pull-request run that went through all its steps and all the
\* calls it started were served.
CompletedPullRequestRun(r) ==
    /\ pc[r] = "done"
    /\ config[r].pullRequestId > 0
    /\ prLock[r].set /\ Proceeds(prLock[r], config[r])
    /\ result[r] \in {"Succeeded", "SucceededWithIssues"}
    /\ inflight[r] = <<>>
    /\ ~hist[r].opFailed

\* C15 (as stated): after a completed pull-request run, whatever its
\* commit and comment flags, no Active thread with an embedded finding is
\* left that none of the run's findings matches.
C15_StaleThreadsResolvedInEveryMode ==
    \A r \in Runs :
        CompletedPullRequestRun(r) => ThreadsToResolve(Me, threads, hist[r].found) = {}

\* C15 restricted to comment mode: the same for the runs whose comment flag
\* is set; this one holds.
C15_StaleThreadsResolvedInCommentMode ==
    \A r \in Runs :
        (CompletedPullRequestRun(r) /\ config[r].commentSuggestions)
            => ThreadsToResolve(Me, threads, hist[r].found) = {}

\* The threads that carry no embedded finding.
ForeignThreadIds == {id \in DOMAIN threads : threads[id].suggestionProperty = NoProperty}

\* C16: a thread without the suggestion property keeps its status and gets
\* no like of the engine, no updateThread or createLike call is ever started
\* for it, and the command in its comment is never applied to the work tree
\* or the branch.
C16_ForeignThreadsUntouched ==
    /\ \A id \in ForeignThreadIds : threads[id] = UserThread
    /\ \A r \in Runs : \A i \in DOMAIN inflight[r] :
          inflight[r][i].op \in {"updateThread", "createLike"}
              => inflight[r][i].threadId \notin ForeignThreadIds
    /\ \A r \in Runs : IndexOf(disk[r].rc.skip, "*.md") = -1
    /\ IndexOf(repo.rc.skip, "*.md") = -1

\* C16 witness: a run executed the command of an engine thread and went
\* through its comment step while the pull request holds a thread without
\* the property whose comment reads like a command.
C16_Witness ==
    \E r \in Runs :
        /\ ForeignThreadIds # {}
        /\ \A id \in ForeignThreadIds :
              StartsWith(threads[id].comments[1].content, commandPrefix)
        /\ "createLike" \in hist[r].mutations
        /\ hist[r].commented
        /\ pc[r] = "done"

\* The paths of the findings that have more than one candidate and are
\* about to get a new thread.
PathsOfNewMultiCandidateThreads(r) ==
    LET toComment == SuggestionsToComment(Me, threads, codespell[r].suggestions,
                                          getChangedFilePathsForPullRequest)
    IN {toComment[i].path :
          i \in {j \in DOMAIN toComment : Len(toComment[j].suggestions) > 1}}

\* C17 (as stated): right after commitSuggestionsToPullRequest has returned
\* to a caller with both modes enabled, the items it pushed are the fixed
\* files and the files of the findings with more than one candidate that
\* are about to get a new thread.
C17_PushedPathsAreFixedOrPlaceholder ==
    \A r \in Runs :
        pc[r] = "committed"
            => \A items \in hist[r].pushed :
                  items = PushedItems(codespell[r].fixed
                                      \cup PathsOfNewMultiCandidateThreads(r))

\* The number of places of s at which sub starts.
Occurrences(s, sub) ==
    Cardinality({i \in 1..Len(s) :
                    i + Len(sub) - 1 <= Len(s) /\ SubSeq(s, i, i + Len(sub) - 1) = sub})

\* C18 (as stated): no line of a work tree or of the source branch ever
\* holds the placeholder arrow twice: the placeholder of a finding is
\* inserted into its line once, however often the commit method is called.
C18_PlaceholderInsertedOnce ==
    /\ \A f \in DOMAIN repo.files : \A n \in DOMAIN repo.files[f] :
          Occurrences(repo.files[f][n], " --> ") <= 1
    /\ \A r \in Runs : \A f \in DOMAIN disk[r].files : \A n \in DOMAIN disk[r].files[f] :
          Occurrences(disk[r].files[f][n], " --> ") <= 1

\* What the code keeps: a call on the client leaves a line alone that holds,
\* letter for letter, the placeholder text of the finding reported for it.
C18_PresentPlaceholderNotRewritten ==
    [][\A r \in Runs :
          pc[r] = "toolDone"
              => \A k \in DOMAIN codespell[r].suggestions :
                    LET s == codespell[r].suggestions[k]
                        f == FileKey(s.path)
                    IN (/\ FileExists(disk[r].files, s.path)
                        /\ s.lineNumber \in 1..Len(disk[r].files[f])
                        /\ IndexOf(disk[r].files[f][s.lineNumber],
                                   getWordPlaceholderTextForSuggestion(s)) # -1)
                          => disk'[r].files[f][s.lineNumber]
                                = disk[r].files[f][s.lineNumber]]_vars

\* C19 (as stated), for the platform failures a run can meet: a
\* pull-request run without the commit flag whose spell-checker ran ends
\* with the result its findings decide, and with comment mode enabled it
\* has gone through its comment step, whatever the platform answered.
C19_PlatformFailureDoesNotAbort ==
    \A r \in Runs :
        (/\ pc[r] = "done" /\ config[r].pullRequestId > 0
         /\ ~config[r].commitSuggestions
         /\ codespell[r] # NoCodespell)
            => /\ result[r] = ResultFor(config[r], hist[r].found)
               /\ config[r].commentSuggestions => hist[r].commented

\* Two findings with the same identity.
SameFinding(a, b) ==
    a.path = b.path /\ a.lineNumber = b.lineNumber /\ a.word = b.word

\* How often the tool reported finding F in the list.
Reported(list, F) == Cardinality({k \in DOMAIN list : SameFinding(list[k], F)})

\* The number of createThread calls among ops whose thread embeds F.
CreatedFor(ops, F) ==
    Cardinality({i \in DOMAIN ops :
                    /\ ops[i].op = "createThread"
                    /\ SameFinding(JSONparse(ops[i].thread[1].suggestionProperty), F)})

\* C20 (as stated): when the round before pushed and lost a thread
\* creation, the comment method called with the same findings starts
\* exactly one createThread call for each finding of a changed file that
\* has no active thread, and none for a finding that has an active thread.
C20_MissingThreadCreatedOnce ==
    [][\A r \in Runs :
          (/\ ~hist[r].commented /\ hist'[r].commented
           /\ prev[r].lost /\ prev[r].found = hist[r].found)
              => LET new == SubSeq(inflight'[r], Len(inflight[r]) + 1, Len(inflight'[r]))
                     list == codespell[r].suggestions
                 IN \A k \in DOMAIN list :
                       CreatedFor(new, list[k]) =
                          IF /\ normalizeDevOpsPath(list[k].path)
                                   \in getChangedFilePathsForPullRequest
                             /\ ~HasActiveThread(Me, threads, list[k])
                          THEN 1
                          ELSE 0
      ]_vars

\* What the code keeps: every call of the comment method starts for each
\* reported finding of a changed file that has no active thread one
\* createThread call per entry of the list that reports it, and none for a
\* finding that has an active thread.
C20_MissingThreadCreatedPerReport ==
    [][\A r \in Runs :
          (~hist[r].commented /\ hist'[r].commented)
              => LET new == SubSeq(inflight'[r], Len(inflight[r]) + 1, Len(inflight'[r]))
                     list == codespell[r].suggestions
                 IN \A k \in DOMAIN list :
                       CreatedFor(new, list[k]) =
                          IF /\ normalizeDevOpsPath(list[k].path)
                                   \in getChangedFilePathsForPullRequest
                             /\ ~HasActiveThread(Me, threads, list[k])
                          THEN Reported(list, list[k])
                          ELSE 0
      ]_vars

\* ------------------------------------------------------------------------
\* Runs that process commands of pull request comments
\* ------------------------------------------------------------------------

\* One pipeline run after the other in comment mode, on pull requests whose
\* engine threads carry replies of a user, with and without .codespellrc in
\* the checkout (and with one that has no [codespell] section), and with a tool that ends normally (0, 65) or crashes (1).
CmdThreads ==
    LET t == ThreadFor(Me, F_teh)
        gone == ThreadFor(Me, [F_c EXCEPT !.path = "gone"])
        liked(thread) == [thread EXCEPT !.comments[2].usersLiked = {Me}]
    IN {<<Reply(t, Other, "@codespell ignore file")>>,
        <<Reply(Reply(t, Other, "@codespell ignore file"), Other, "@codespell ignore file")>>,
        <<liked(Reply(t, Other, "@codespell ignore word"))>>,
        <<Reply(t, Other, "@codespell help")>>,
        <<Reply(t, Other, "please ignore word")>>,
        <<Reply(gone, Other, "@codespell ignore this")>>}

CmdRepos ==
    {Repo0,
     RepoNoRc,
     [Repo0 EXCEPT !.rc = Rc(TRUE, FALSE, "", "")]}

\* The pipelines of the command behaviours: comment mode, with and without
\* commit mode, no post-fix command (the runner waits for the tool only).
CmdEnvs ==
    {Env("org", "7", "j1", <<commit, TRUE, FALSE, FALSE>>, TRUE, <<FALSE, FALSE, FALSE>>) :
        commit \in BOOLEAN}

CmdOutputs ==
    {ToolOutput(0, {}, <<>>), ToolOutput(65, {}, <<F_teh>>), ToolOutput(1, {}, <<>>)}

InitCmd ==
    /\ lockProp = Absent
    /\ threads \in CmdThreads
    /\ repo \in CmdRepos
    /\ InitRuns
    /\ InitFnNone

NextCmd ==
    \/ Start(1, CmdEnvs)
    \/ AcquireRead(1)
    \/ AcquireWrite(1)
    \/ ProcessCommands(1)
    \/ RunCodespell(1, CmdOutputs)
    \/ RunnerReturns(1)
    \/ CommitSuggestions(1)
    \/ CommentSuggestions(1)
    \/ ReleaseLock(1)
    \/ CompleteCall(1)
    \/ Kill(1)

SpecCmd == InitCmd /\ [][NextCmd]_vars

\* ------------------------------------------------------------------------
\* Commands in comments
\* ------------------------------------------------------------------------

\* The createLike calls a step of run r starts.
NewLikes(r) ==
    {inflight'[r][i] : i \in {j \in Len(inflight[r]) + 1 .. Len(inflight'[r]) :
                                 inflight'[r][j].op = "createLike"}}

\* Run r executes the command step.
CommandStep(r) == pc[r] = "commands" /\ pc'[r] = "codespell"

\* C21: a comment the engine's own identity has liked is skipped by the
\* command step of every later run: no like is started for it, and when
\* every command comment of the engine's threads is liked the step leaves
\* the files and the config of the work tree as they are.
C21_LikedCommentSkipped ==
    [][\A r \in Runs :
          CommandStep(r) =>
             LET pairs == CommentPairs(threads)
                 commentOf(p) == threads[p[1]].comments[p[2]]
             IN /\ \A op \in NewLikes(r) :
                      Me \notin threads[op.threadId].comments[op.commentId].usersLiked
                /\ (\A i \in 1..Len(pairs) :
                       StartsWith(commentOf(pairs[i]).content, commandPrefix)
                          => Me \in commentOf(pairs[i]).usersLiked)
                   => disk'[r] = disk[r] /\ NewLikes(r) = {}]_vars

\* A second run has passed the command step on a pull request whose command
\* comment the first run executed and liked: the skip list is not extended
\* again and no call is pending.
C21_Witness ==
    /\ started = 2
    /\ pc[1] = "codespell"
    /\ Len(threads) >= 1
    /\ Len(threads[1].comments) = 2
    /\ threads[1].comments[2].content = "@codespell ignore file"
    /\ Me \in threads[1].comments[2].usersLiked
    /\ disk[1] = base[1]
    /\ inflight[1] = <<>>

\* The runs of SpecCmd when every call that was started ends: the HTTP
\* client settles each request with a response or with an error.
SpecCmdFair == SpecCmd /\ WF_vars(CompleteCall(1))

\* The comments the command step handles, in the order of the loops: the
\* comments not liked by the caller whose processCommands returns true on
\* the work tree the comments before it left.
RECURSIVE HandledPairs(_, _, _, _)
HandledPairs(userId, ts, pairs, work) ==
    IF pairs = <<>> THEN {}
    ELSE LET comment == ts[Head(pairs)[1]].comments[Head(pairs)[2]]
             res == IF userId \in comment.usersLiked THEN Patched(FALSE, work)
                    ELSE processCommands(work, comment.content,
                                         getSuggestionFromThread(ts[Head(pairs)[1]])[1])
         IN (IF res.ok THEN {Head(pairs)} ELSE {})
               \cup HandledPairs(userId, ts, Tail(pairs), res.work)

\* A like of comment c of thread 1 is pending in run 1.
LikePending(c) ==
    \E i \in 1..Len(inflight[1]) :
        inflight[1][i] = Op("createLike", 1, c, <<>>)

\* Comment c of thread 1 is liked by the engine.
Liked(c) ==
    c \in 1..Len(threads[1].comments) /\ Me \in threads[1].comments[c].usersLiked

\* C22: when the mutation of a command succeeds the command step starts a
\* like for exactly the comments whose processCommands returned true, in the
\* same step that changes the work tree; every like that was started ends
\* with the comment liked by the engine, unless the call fails or the
\* process is terminated.
C22_HandledCommentIsLiked ==
    /\ [][\A r \in Runs :
            CommandStep(r) =>
               /\ (disk'[r] # disk[r] => NewLikes(r) # {})
               /\ {<<op.threadId, op.commentId>> : op \in NewLikes(r)}
                     = HandledPairs(Me, threads, CommentPairs(threads), disk[r])]_vars
    /\ \A c \in {2, 3} :
          [](LikePending(c) =>
                <>(Liked(c) \/ hist[1].opFailed))

\* The command 'ignore file' was executed in the work tree and its like is
\* pending.
C22_Witness ==
    /\ pc[1] = "codespell"
    /\ disk[1].rc.skip = "bin,obj,a/b"
    /\ LikePending(2)
    /\ Me \notin threads[1].comments[2].usersLiked

\* ------------------------------------------------------------------------
\* processCommands applied to one reply under an engine thread
\* ------------------------------------------------------------------------

\* The contents of the reply.
CommandContents ==
    {"@codespell ignore", "@codespell ignore this", "@codespell ignore line",
     "@codespell ignore word", "@codespell ignore file",
     "@codespell ignore file-type", "@codespell ignore ext", "@codespell ignore dir",
     "@codespell ignore *.md", "@codespell ignore Docs/*", "@codespell  IGNORE  Word",
     "@codespell help", "@codespell fix this", "@codespell", "@codespellignore word",
     "@Codespell ignore word", "please @codespell ignore word", "ignore word", ""}

\* The work trees: with .codespellrc as its author wrote it and as
\* ini.stringify writes it, without it, with a .codespellrc that has no
\* [codespell] section, and with the inline comment already in place.
CommandWorks ==
    LET files == [f \in {"docs/readme.md", "src/app.py"} |->
                     IF f = "src/app.py" THEN <<"x = 1", "teh = 2">> ELSE <<"teh fox">>]
    IN {Checkout(files, Rc(TRUE, TRUE, "bin,obj", "")),
        Checkout(files, Stringified(Rc(TRUE, TRUE, "bin,obj", ""))),
        Checkout(files, Rc(FALSE, FALSE, "", "")),
        Checkout(files, Rc(TRUE, FALSE, "", "")),
        Checkout([files EXCEPT !["src/app.py"][2] = "teh = 2 # codespell:ignore teh"],
                 Rc(TRUE, TRUE, "", "teh"))}

\* The findings the thread embeds: in a Markdown file, in a Python file and
\* in a file that is not in the checkout.
CommandSuggestions ==
    {[path |-> "docs/readme.md", lineNumber |-> 1, lineText |-> "teh fox",
      word |-> "teh", suggestions |-> <<"the">>],
     [path |-> "src/app.py", lineNumber |-> 2, lineText |-> "teh = 2",
      word |-> "teh", suggestions |-> <<"the", "ten">>],
     [path |-> "gone.txt", lineNumber |-> 1, lineText |-> "teh",
      word |-> "teh", suggestions |-> <<"the">>]}

InitCommand ==
    /\ InitPlatform({<<>>})
    /\ InitRuns
    /\ fnIn \in [fn : {"processCommands"}, content : CommandContents,
                 work : CommandWorks, suggestion : CommandSuggestions]
    /\ fnOut = <<>>

\* Lines 307-326 of azureDevOpsClient.ts for the reply: the value
\* processCommands returns, the work tree it leaves and the likes started.
ApplyProcessCommands ==
    /\ fnIn.fn = "processCommands"
    /\ fnOut = <<>>
    /\ LET ts == <<Reply(ThreadFor(Me, fnIn.suggestion), Other, fnIn.content)>>
           done == ProcessPairs(Me, ts, CommentPairs(ts), fnIn.work, <<>>)
       IN fnOut' = <<[handled |-> processCommands(fnIn.work, fnIn.content,
                                                  fnIn.suggestion).ok,
                      work |-> done.work, likes |-> done.ops]>>
    /\ UNCHANGED <<platformVars, pc, config, prLock, result, codespell, inflight,
                   diskVars, hist, prev, started, lostUpdate, fnIn>>

SpecCommand == InitCommand /\ [][ApplyProcessCommands]_vars

\* processCommands was applied to the reply.
Applied == fnIn.fn = "processCommands" /\ fnOut # <<>>

\* The words of a text, separated by spaces, in lower case.
RECURSIVE Words(_)
Words(s) ==
    LET t == TrimStart(s)
        at == IndexOf(t, " ")
    IN IF t = "" THEN <<>>
       ELSE IF at = -1 THEN <<ToLowerCase(t)>>
       ELSE <<ToLowerCase(SubstringTo(t, at))>> \o Words(SubstringFrom(t, at))

\* The words that follow the command prefix in the reply.
WordsAfterPrefix == Words(SubstringFrom(fnIn.content, Len(commandPrefix)))

\* C23: a reply whose content does not start with the command prefix, or
\* whose first word after the prefix is not the name of a command, is not
\* handled: processCommands returns false, the files and the config stay as
\* they are and no like is started.
C23_NotACommandNotHandled ==
    Applied /\ (\/ ~StartsWith(fnIn.content, commandPrefix)
                \/ WordsAfterPrefix = <<>>
                \/ WordsAfterPrefix[1] # "ignore")
       => /\ ~fnOut[1].handled
          /\ fnOut[1].work = fnIn.work
          /\ fnOut[1].likes = <<>>

\* An unknown command was applied to a work tree in which 'ignore' would
\* have succeeded.
C23_Witness ==
    /\ Applied
    /\ fnIn.content = "@codespell fix this"
    /\ fnIn.work.rc.hasSection
    /\ ~fnOut[1].handled

\* The mutation of an ignore command throws: the source file or its line
\* cannot be read (this, line), or .codespellrc is missing or has no
\* [codespell] section to add the entry to (every other scope).
MutationFails(work, ignoreTarget, suggestion) ==
    IF ignoreTarget \in {"this", "line"}
    THEN \/ ~FileExists(work.files, suggestion.path)
         \/ suggestion.lineNumber \notin 1..Len(work.files[FileKey(suggestion.path)])
    ELSE \/ ~work.rc.exists
         \/ ~work.rc.hasSection /\ ignoreTarget # ""

\* The comments of the engine's threads, not liked by the engine, that hold
\* an ignore command whose mutation fails in the given work tree.
FailingCommands(ts, work) ==
    LET pairs == CommentPairs(ts)
    IN {pairs[i] : i \in {j \in 1..Len(pairs) :
          LET comment == ts[pairs[j][1]].comments[pairs[j][2]]
              command == CommandOf(comment.content)
          IN /\ IsUnprocessed(Me, comment)
             /\ StartsWith(comment.content, commandPrefix)
             /\ command[1] = "ignore"
             /\ MutationFails(work, IF Len(command) > 1 THEN command[2] ELSE "this",
                              getSuggestionFromThread(ts[pairs[j][1]])[1])}}

\* C24: a command whose mutation fails does not abort the run and is not
\* marked: the command step goes on to the spell-checker without a result
\* set, starts no like for the comment and leaves it not liked, so that the
\* next run finds it unprocessed; the only failure of the step is the read of
\* the threads, before any command is looked at.
C24_FailedMutationIsRetried ==
    [][\A r \in Runs :
            pc[r] = "commands" /\ pc'[r] \notin {"commands", "killed"} =>
               \/ /\ pc'[r] = "codespell"
                  /\ result'[r] = result[r]
                  /\ \A p \in FailingCommands(threads, disk[r]) :
                        /\ \A op \in NewLikes(r) : <<op.threadId, op.commentId>> # p
                        /\ IsUnprocessed(Me, threads'[p[1]].comments[p[2]])
                  /\ (\A i \in 1..Len(CommentPairs(threads)) :
                         LET p == CommentPairs(threads)[i]
                             comment == threads[p[1]].comments[p[2]]
                         IN \/ p \in FailingCommands(threads, disk[r])
                            \/ ~StartsWith(comment.content, commandPrefix)
                            \/ ~IsUnprocessed(Me, comment))
                        => disk'[r] = disk[r]
               \/ /\ result'[r] = "Failed"
                  /\ disk'[r] = disk[r]
                  /\ inflight'[r] = inflight[r]]_vars

\* A second run has passed the command step with the command that failed in
\* the first run, on a checkout without .codespellrc: the comment is still
\* not liked and nothing is pending.
C24_Witness ==
    /\ started = 2
    /\ pc[1] = "codespell"
    /\ ~disk[1].rc.exists
    /\ threads[1].comments[2].content = "@codespell ignore file"
    /\ IsUnprocessed(Me, threads[1].comments[2])
    /\ inflight[1] = <<>>
    /\ result[1] = "None"

\* The text of a path before its last separator, and after its last dot.
ParentDir(path) ==
    LET parts == Split(path, PathSep)
    IN JoinWith(SubSeq(parts, 1, Len(parts) - 1), PathSep)

Extension(path) == Last(Split(path, "."))

\* The line of the finding with the inline ignore marker after it.
WithMarker(work, suggestion, word) ==
    [work EXCEPT !.files[FileKey(suggestion.path)][suggestion.lineNumber] =
        @ \o " " \o CodespellIgnoreComment(suggestion.path, word)]

WithSkip(work, pattern) ==
    [work EXCEPT !.rc = Stringified([@ EXCEPT !.skip = AppendToList(@, pattern)])]

WithIgnoredWord(work, word) ==
    [work EXCEPT !.rc = Stringified([@ EXCEPT !.ignoreWords = AppendToList(@, word)])]

\* The reply is the ignore command with the given words after it, and its
\* mutation can succeed: the file, the line and the [codespell] section
\* are there and the line carries no marker yet.
IgnoreApplied(scope) ==
    /\ Applied
    /\ fnIn.content = "@codespell ignore" \o scope
    /\ fnIn.work.rc.hasSection
    /\ fnIn.work.rc.ignoreWords = ""
    /\ FileExists(fnIn.work.files, fnIn.suggestion.path)

\* C25: the scope word selects the mutation: none or 'this' the inline
\* marker with the word, 'line' the marker without a word, 'word' the
\* ignore-word list, 'file' the exact path in the skip list, 'file-type' and
\* 'ext' the pattern *.<ext>, 'dir' the pattern <parent-dir>/*, and any
\* other word is appended to the skip list as it was written.
C25_ScopeSelectsMutation ==
    LET w == fnIn.work
        s == fnIn.suggestion
    IN /\ IgnoreApplied("") \/ IgnoreApplied(" this")
            => fnOut[1].work = WithMarker(w, s, s.word)
       /\ IgnoreApplied(" line") => fnOut[1].work = WithMarker(w, s, "")
       /\ IgnoreApplied(" word")
            => fnOut[1].work = WithIgnoredWord(w, s.word)
       /\ IgnoreApplied(" file") => fnOut[1].work = WithSkip(w, s.path)
       /\ IgnoreApplied(" file-type") \/ IgnoreApplied(" ext")
            => fnOut[1].work = WithSkip(w, "*." \o Extension(s.path))
       /\ IgnoreApplied(" dir")
            => fnOut[1].work = WithSkip(w, ParentDir(s.path) \o PathSep \o "*")
       /\ IgnoreApplied(" *.md") => fnOut[1].work = WithSkip(w, "*.md")
       /\ IgnoreApplied(" Docs/*") => fnOut[1].work = WithSkip(w, "Docs/*")

\* The scopes as the code implements them: 'ext' is not a scope of its own,
\* 'dir' appends the separator and the star without the directory, and a
\* custom pattern is appended in lower case.
C25_ScopesOfTheCode ==
    LET w == fnIn.work
        s == fnIn.suggestion
    IN /\ IgnoreApplied("") \/ IgnoreApplied(" this")
            => fnOut[1].work = WithMarker(w, s, s.word)
       /\ IgnoreApplied(" line") => fnOut[1].work = WithMarker(w, s, "")
       /\ IgnoreApplied(" word")
            => fnOut[1].work = WithIgnoredWord(w, s.word)
       /\ IgnoreApplied(" file") => fnOut[1].work = WithSkip(w, s.path)
       /\ IgnoreApplied(" file-type")
            => fnOut[1].work = WithSkip(w, "*." \o Extension(s.path))
       /\ IgnoreApplied(" ext") => fnOut[1].work = WithSkip(w, "ext")
       /\ IgnoreApplied(" dir") => fnOut[1].work = WithSkip(w, PathSep \o "*")
       /\ IgnoreApplied(" *.md") => fnOut[1].work = WithSkip(w, "*.md")
       /\ IgnoreApplied(" Docs/*") => fnOut[1].work = WithSkip(w, "docs/*")

\* The number of entries of a comma separated list that equal the entry.
Entries(list, entry) ==
    Cardinality({i \in 1..Len(Split(list, ",")) : Split(list, ",")[i] = entry})

\* C26: whatever number of 'ignore file' commands for the file of the
\* finding was executed, in one run or in several, the skip list of
\* .codespellrc, in the work tree and on the branch, holds the path of the
\* file at most once, and once when a command for it was executed.
C26_FileIgnoredOnce ==
    /\ Entries(repo.rc.skip, F_teh.path) <= 1
    /\ \A r \in Runs :
          /\ Entries(disk[r].rc.skip, F_teh.path) <= 1
          /\ pc[r] = "codespell" /\ disk[r].rc # base[r].rc
                => Entries(disk[r].rc.skip, F_teh.path) = 1

\* What the code keeps: a command that was executed left the path in the
\* skip list.
C26_FileIgnoredAtLeastOnce ==
    \A r \in Runs :
        pc[r] = "codespell" /\ disk[r].rc # base[r].rc
           => Entries(disk[r].rc.skip, F_teh.path) >= 1

\* ------------------------------------------------------------------------
\* Task result
\* ------------------------------------------------------------------------

\* run() of slot r has left its try block.
LeftTry(r) == pc[r] \in {"release", "done"} /\ hist[r].unhandled = ""

\* The two conditions on which run() skips: the config file is missing and
\* the input asks to skip, or the lock was not acquired for this job.
SkipCondition(r) ==
    \/ config[r].skipIfCodeSpellConfigMissing /\ ~config[r].hasCodeSpellConfigFile
    \/ /\ prLock[r].set
       /\ ~prLock[r].wasAcquired \/ prLock[r].ownerJobId # config[r].jobId

\* C27 (as stated), for the runs whose last step is the commit step: when
\* run r leaves the try block from its commit step, the result it leaves
\* is the one its findings decide: Succeeded with no finding,
\* SucceededWithIssues with findings and failOnMisspelling false, Failed
\* with findings and failOnMisspelling true.
C27_FinalStatusByFindings ==
    [][\A r \in Runs :
          (pc[r] = "commit" /\ pc'[r] \in {"release", "done"})
              => result'[r] = ResultFor(config[r], hist[r].found)]_vars

\* What the code keeps: a run that left the try block is Skipped exactly
\* when the pull request is locked for another job or the config file is
\* missing and skipIfCodeSpellConfigMissing is set; a run that is Succeeded
\* had no findings, a run that is SucceededWithIssues had findings and
\* failOnMisspelling false, and findings with failOnMisspelling true give
\* Failed.
C27_FinalStatusUnlessThrown ==
    \A r \in Runs :
        LeftTry(r) =>
           /\ result[r] \in {"Skipped", "Succeeded", "SucceededWithIssues", "Failed"}
           /\ result[r] = "Skipped" <=> SkipCondition(r)
           /\ result[r] = "Succeeded" => hist[r].found = <<>>
           /\ result[r] = "SucceededWithIssues"
                 => hist[r].found # <<>> /\ ~config[r].failOnMisspelling
           /\ ~SkipCondition(r) /\ hist[r].found # <<>> /\ config[r].failOnMisspelling
                 => result[r] = "Failed"

\* No run in commit mode that got the lock of its pull request returns with
\* a result other than Failed.
C27_CommitModeAlwaysFails ==
    \A r \in Runs :
        (LeftTry(r) /\ config[r].commitSuggestions /\ config[r].pullRequestId > 0
            /\ ~SkipCondition(r))
            => result[r] = "Failed"

\* C28: when the spell-checker ends with an exit code that is neither 'no
\* misspelling' (0) nor 'misspellings found' (65), the run ends Failed and
\* does not reconcile the threads against the empty list of findings.
C28_CrashIsFailure ==
    \A r \in Runs :
        pc[r] \in {"release", "done"} /\ codespell[r].returnCode \notin {0, 65}
           => result[r] = "Failed" /\ ~hist[r].commented

\* C29: a run whose configuration cannot be parsed ends before any platform
\* operation, and run() sets its result to Failed with the message of the
\* configuration error.
C29_ConfigErrorSetsFailed ==
    \A r \in Runs :
        pc[r] = "done" /\ hist[r].unhandled # ""
           => /\ result[r] = "Failed"
              /\ hist[r].mutations = {}
              /\ hist[r].readExisting = Undefined
              /\ ~prLock[r].set

\* What the code keeps: the error leaves run() before any platform
\* operation, and it leaves it unhandled, with no result set by run().
C29_ConfigErrorBeforePlatform ==
    \A r \in Runs :
        pc[r] = "done" /\ hist[r].unhandled # ""
           => /\ result[r] = "None"
              /\ hist[r].mutations = {}
              /\ hist[r].readExisting = Undefined
              /\ ~prLock[r].set
              /\ inflight[r] = <<>>

\* ------------------------------------------------------------------------
\* The stdout handler of CodespellRunner.run (codespellRunner.ts 148-165)
\* ------------------------------------------------------------------------

\* data.toString().split(/[\r\n]+/): the pieces between runs of line breaks;
\* a text that starts or ends with a line break has an empty first or last
\* piece.
RECURSIVE SplitLines(_)
SplitLines(s) ==
    LET breaks == {i \in 1..Len(s) : CharAt(s, i) \in {"\n", "\r"}}
    IN IF breaks = {} THEN <<s>>
       ELSE LET first == CHOOSE i \in breaks : \A j \in breaks : i <= j
                after == {i \in first..Len(s) : \A j \in first..i : j \in breaks}
                last == CHOOSE i \in after : \A j \in after : j <= i
            IN <<SubSeq(s, 1, first - 1)>> \o SplitLines(SubSeq(s, last + 1, Len(s)))

\* line.match(/(.*):(\d+):(.*)==>(.*)/i): the four groups, <<>> when the line
\* does not match.  The first group is greedy: it ends at the last colon
\* that is followed by digits, a colon and, somewhere after it, '==>'; the
\* third group ends at the last '==>'.
MatchSuggestion(line) ==
    LET n == Len(line)
        IsDigit(i) == IndexOf("0123456789", CharAt(line, i)) # -1
        NumberEnd(i) ==
            CHOOSE j \in (i + 1)..(n + 1) :
                /\ \A k \in (i + 1)..(j - 1) : IsDigit(k)
                /\ j = n + 1 \/ ~IsDigit(j)
        ArrowsFrom(j) == {k \in j..(n - 2) : SubSeq(line, k, k + 2) = "==>"}
        starts == {i \in 1..n :
                     /\ CharAt(line, i) = ":"
                     /\ NumberEnd(i) > i + 1
                     /\ NumberEnd(i) <= n
                     /\ CharAt(line, NumberEnd(i)) = ":"
                     /\ ArrowsFrom(NumberEnd(i) + 1) # {}}
    IN IF starts = {} THEN <<>>
       ELSE LET i == CHOOSE x \in starts : \A y \in starts : y <= x
                j == NumberEnd(i)
                k == CHOOSE x \in ArrowsFrom(j + 1) : \A y \in ArrowsFrom(j + 1) : y <= x
            IN <<SubSeq(line, 1, i - 1), SubSeq(line, i + 1, j - 1),
                 SubSeq(line, j + 1, k - 1), SubSeq(line, k + 3, n)>>

\* parseInt of a string of digits.
RECURSIVE ParseInt(_)
ParseInt(digits) ==
    IF digits = "" THEN 0
    ELSE ParseInt(SubSeq(digits, 1, Len(digits) - 1)) * 10
            + IndexOf("0123456789", CharAt(digits, Len(digits)))

\* The handler applied to the lines of a chunk: the suggestions pushed and
\* the value of lineContext after the chunk.
RECURSIVE onStdoutLines(_, _, _)
onStdoutLines(lines, lineContext, suggestions) ==
    IF lines = <<>> THEN [suggestions |-> suggestions, lineContext |-> lineContext]
    ELSE LET line == Head(lines)
             suggestionMatch == MatchSuggestion(line)
             pushed ==
                 IF suggestionMatch = <<>> THEN suggestions
                 ELSE Append(suggestions,
                        [path |-> Trim(suggestionMatch[1]),
                         lineNumber |-> ParseInt(suggestionMatch[2]),
                         lineText |-> SubstringFrom(lineContext, 1),
                         word |-> Trim(suggestionMatch[3]),
                         suggestions |-> MapSeq(LAMBDA c : Trim(c),
                                                Split(Trim(suggestionMatch[4]), ","))])
         IN onStdoutLines(Tail(lines), line, pushed)

\* The chunks the handler receives: one or two of the lines the tool can
\* write.
StdoutChunks ==
    LET lines == {"The qick brown fox", "> The qick brown fox",
                  "doc.txt:1:The qick brown fox==>quick", "doc.txt:1: qick ==> quick",
                  "src/a.py:12: teh ==> the, ten", "C:x.md:3: wrod ==> word,",
                  "note: see 1:2", "x ==> y", "a:7:b:8: c ==> d ==> e", ""}
    IN lines \cup {a \o "\n" \o b : a, b \in lines}

InitParse ==
    /\ InitPlatform({<<>>})
    /\ InitRuns
    /\ fnIn \in [fn : {"onStdout"}, data : StdoutChunks]
    /\ fnOut = <<>>

\* The first chunk of the tool's output reaches the handler (lineContext
\* is the empty string).
ApplyOnStdout ==
    /\ fnIn.fn = "onStdout"
    /\ fnOut = <<>>
    /\ fnOut' = <<onStdoutLines(SplitLines(fnIn.data), "", <<>>).suggestions>>
    /\ UNCHANGED <<platformVars, pc, config, prLock, result, codespell, inflight,
                   diskVars, hist, prev, started, lostUpdate, fnIn>>

SpecParse == InitParse /\ [][ApplyOnStdout]_vars

\* The handler was applied to the chunk.
Parsed == fnIn.fn = "onStdout" /\ fnOut # <<>>

\* The positions of the lines of the chunk that have the form of a finding.
FindingLines ==
    {i \in 1..Len(SplitLines(fnIn.data)) : MatchSuggestion(SplitLines(fnIn.data)[i]) # <<>>}

\* C30: every output line of the form <path>:<line>:<context>==><candidates>
\* gives exactly one finding, other lines give none; the candidates of a
\* finding are not empty and its lineText is the whole line before it; the
\* two lines of the scenario give the finding for 'qick' in doc.txt.
C30_ParserEmitsFinding ==
    Parsed =>
       LET lines == SplitLines(fnIn.data)
           out == fnOut[1]
       IN /\ Len(out) = Cardinality(FindingLines)
          /\ \A k \in 1..Len(out) : \A c \in 1..Len(out[k].suggestions) :
                out[k].suggestions[c] # ""
          /\ Len(lines) = 2 /\ 2 \in FindingLines => out[Len(out)].lineText = lines[1]
          /\ fnIn.data = "The qick brown fox\ndoc.txt:1:The qick brown fox==>quick"
                => out = <<[path |-> "doc.txt", lineNumber |-> 1, word |-> "qick",
                            suggestions |-> <<"quick">>,
                            lineText |-> "The qick brown fox"]>>

\* What the code does: one finding for each such line; lineText is the line
\* before it without its first character; the word is everything between
\* the line number and the last '==>'; an empty candidate is kept.
C30_ParserOfTheCode ==
    Parsed =>
       LET lines == SplitLines(fnIn.data)
           out == fnOut[1]
       IN /\ Len(out) = Cardinality(FindingLines)
          /\ Len(lines) = 2 /\ 2 \in FindingLines
                => out[Len(out)].lineText = SubstringFrom(lines[1], 1)
          /\ fnIn.data = "The qick brown fox\ndoc.txt:1:The qick brown fox==>quick"
                => out = <<[path |-> "doc.txt", lineNumber |-> 1,
                            word |-> "The qick brown fox",
                            suggestions |-> <<"quick">>,
                            lineText |-> "he qick brown fox"]>>
          /\ fnIn.data = "> The qick brown fox\ndoc.txt:1: qick ==> quick"
                => out = <<[path |-> "doc.txt", lineNumber |-> 1, word |-> "qick",
                            suggestions |-> <<"quick">>,
                            lineText |-> " The qick brown fox"]>>
          /\ fnIn.data = "C:x.md:3: wrod ==> word,"
                => out[1].suggestions = <<"word", "">>

\* ------------------------------------------------------------------------
\* normalizeDevOpsPath applied to a path, and to its own result
\* ------------------------------------------------------------------------

\* The longest path drawn from the alphabet.
MaxPathLen == 3

\* Every text of at most MaxPathLen characters out of a letter, the dot and
\* the two separators, and the three spellings of the path a/b.
RECURSIVE PathsUpTo(_)
PathsUpTo(n) ==
    IF n = 0 THEN {""}
    ELSE PathsUpTo(n - 1)
            \cup {p \o c : p \in PathsUpTo(n - 1), c \in {"a", ".", "/", "\\"}}

InitPath ==
    /\ InitPlatform({<<>>})
    /\ InitRuns
    /\ fnIn \in [fn : {"normalizeDevOpsPath"},
                 path : PathsUpTo(MaxPathLen) \cup {"./a/b", "a/b", "a\\b"}]
    /\ fnOut = <<>>

\* The function is applied to the path, then to the value it returned.
ApplyNormalize ==
    /\ fnIn.fn = "normalizeDevOpsPath"
    /\ Len(fnOut) < 2
    /\ fnOut' = Append(fnOut, normalizeDevOpsPath(IF fnOut = <<>> THEN fnIn.path
                                                   ELSE fnOut[1]))
    /\ UNCHANGED <<platformVars, pc, config, prLock, result, codespell, inflight,
                   diskVars, hist, prev, started, lostUpdate, fnIn>>

SpecPath == InitPath /\ [][ApplyNormalize]_vars

\* C31: normalizing a normalized path returns it unchanged, and the three
\* spellings ./a/b, a/b and a\b of a path have the same normal form.
C31_NormalizeIdempotent ==
    fnIn.fn = "normalizeDevOpsPath" =>
       /\ Len(fnOut) = 2 => fnOut[2] = fnOut[1]
       /\ Len(fnOut) >= 1 /\ fnIn.path \in {"./a/b", "a/b", "a\\b"} => fnOut[1] = "/a/b"

\* The path a\b was normalized twice: both results are /a/b, which differs
\* from the input.
C31_Witness ==
    /\ fnIn.fn = "normalizeDevOpsPath"
    /\ fnIn.path = "a\\b"
    /\ Len(fnOut) = 2
    /\ fnOut[1] # fnIn.path
    /\ fnOut[2] = "/a/b"

\* ------------------------------------------------------------------------
\* parseExtensionConfiguration applied to task inputs and [devops] keys
\* ------------------------------------------------------------------------

\* getBoolInput(name, false) of the task library: true for the text 'true'
\* in any case, false for every other text and for an input that is not set
\* (the empty text).
GetBoolInput(text) == ToLowerCase(text) = "true"

InitConfig ==
    /\ InitPlatform({<<>>})
    /\ InitRuns
    /\ fnIn \in [fn : {"parseExtensionConfiguration"},
                 commit : {"", "true", "false"},
                 comment : {"", "true", "false"},
                 fail : {"", "True", "false"},
                 hasRc : BOOLEAN,
                 rcKeys : {<<a, b, c>> : a, b, c \in BOOLEAN}]
    /\ fnOut = <<>>

\* The configuration is parsed in a pull request run with the given task
\* inputs and the given keys in the [devops] section of .codespellrc.
ApplyParseConfig ==
    /\ fnIn.fn = "parseExtensionConfiguration"
    /\ fnOut = <<>>
    /\ fnOut' = <<parseExtensionConfiguration(
                     Env("org", "7", "j1",
                         <<GetBoolInput(fnIn.commit), GetBoolInput(fnIn.comment),
                           GetBoolInput(fnIn.fail), FALSE>>,
                         fnIn.hasRc, fnIn.rcKeys))>>
    /\ UNCHANGED <<platformVars, pc, config, prLock, result, codespell, inflight,
                   diskVars, hist, prev, started, lostUpdate, fnIn>>

SpecConfig == InitConfig /\ [][ApplyParseConfig]_vars

\* The configuration was parsed.
ConfigParsed == fnIn.fn = "parseExtensionConfiguration" /\ fnOut # <<>>

\* C32: when an option is given as a task input and its key is in the
\* config file, the effective value is the value of the task input; a task
\* input of false stays false.
C32_TaskInputTakesPriority ==
    ConfigParsed /\ fnIn.hasRc =>
       /\ fnIn.commit # "" /\ fnIn.rcKeys[1]
             => fnOut[1].commitSuggestions = GetBoolInput(fnIn.commit)
       /\ fnIn.comment # "" /\ fnIn.rcKeys[2]
             => fnOut[1].commentSuggestions = GetBoolInput(fnIn.comment)
       /\ fnIn.fail # "" /\ fnIn.rcKeys[3]
             => fnOut[1].failOnMisspelling = GetBoolInput(fnIn.fail)

\* What the code computes: an option is on when its task input is true or
\* its key is in the [devops] section of an existing config file.
C32_OptionOfTheCode ==
    ConfigParsed =>
       /\ fnOut[1].commitSuggestions
             = (GetBoolInput(fnIn.commit) \/ (fnIn.hasRc /\ fnIn.rcKeys[1]))
       /\ fnOut[1].commentSuggestions
             = (GetBoolInput(fnIn.comment) \/ (fnIn.hasRc /\ fnIn.rcKeys[2]))
       /\ fnOut[1].failOnMisspelling
             = (GetBoolInput(fnIn.fail) \/ (fnIn.hasRc /\ fnIn.rcKeys[3]))

\* ------------------------------------------------------------------------
\* Runs outside a pull request, order of the steps, lock property
\* ------------------------------------------------------------------------

\* C33: a run outside a pull request (pull request id 0) ignores the commit
\* and comment settings: it reads and writes no lock, pushes nothing, starts
\* no thread call and no like, and attempts no release.
C33_NoPullRequestNoPlatformCall ==
    \A r \in Runs :
        pc[r] # "idle" /\ config[r].pullRequestId = 0 =>
           /\ hist[r].readExisting = Undefined
           /\ ~prLock[r].set
           /\ ~hist[r].releaseAttempted
           /\ hist[r].mutations = {}
           /\ hist[r].pushed = {}
           /\ ~hist[r].commented
           /\ inflight[r] = <<>>
           /\ pc[r] \notin {"acquire", "acquireWrite", "commands", "commit", "commitPush", "comment",
                            "release"}

\* A run outside a pull request with both settings on reported findings and
\* left the try block.
C33_Witness ==
    /\ LeftTry(1)
    /\ config[1].pullRequestId = 0
    /\ config[1].commitSuggestions
    /\ config[1].commentSuggestions
    /\ hist[1].found # <<>>
    /\ result[1] = "Failed"

\* C34: in every run the lock is held when the commands are processed, and
\* the changes a command makes to .codespellrc or to a file, like the likes
\* it starts, happen in the command step, which comes after the acquire and
\* before the step that starts the spell-checker; no later step of the run
\* returns to the commands.
C34_CommandsBetweenLockAndTool ==
    [][\A r \in Runs :
          /\ pc[r] = "commands"
                => /\ prLock[r].set /\ prLock[r].wasAcquired
                   /\ prLock[r].ownerJobId = config[r].jobId
                   /\ codespell[r] = NoCodespell
          /\ pc[r] \notin {"idle", "done", "killed"}
                /\ (disk'[r].rc # disk[r].rc \/ NewLikes(r) # {})
                => pc[r] = "commands" /\ pc'[r] = "codespell"
          /\ pc'[r] = "commands" => pc[r] \in {"acquire", "acquireWrite", "commands"}]_vars

\* The run holds the lock, its command step has put the path in the skip
\* list, and the spell-checker has not run yet.
C34_Witness ==
    /\ pc[1] = "codespell"
    /\ prLock[1].wasAcquired
    /\ disk[1].rc.skip = "bin,obj,a/b"
    /\ base[1].rc.skip = "bin,obj"
    /\ codespell[1] = NoCodespell
    /\ hist[1].found = <<>>

\* C35: an acquire that reads a value in the lock property, the caller's own
\* id or another one, writes nothing: the step leaves the property as it is,
\* returns the value it read as the owner, and does not go on to the write.
C35_AcquireOnPresentValueWritesNothing ==
    [][\A r \in Runs :
          pc[r] = "acquire" /\ lockProp # Absent /\ pc'[r] \notin {"acquire", "killed"}
             => /\ lockProp' = lockProp
                /\ pc'[r] # "acquireWrite"
                /\ prLock'[r].set
                /\ prLock'[r].wasAcquired => prLock'[r].ownerJobId = lockProp]_vars

\* An acquire has read the id of another job and the id is still there.
C35_Witness ==
    \E r \in Runs :
        /\ hist[r].readExisting \in JobIds \ {config[r].jobId}
        /\ prLock[r].set
        /\ ~prLock[r].wasAcquired
        /\ lockProp = hist[r].readExisting
        /\ pc[r] = "done"

\* C36: a run that is about to release finds in the lock property nothing
\* or its own id, so that its release removes no value another run wrote;
\* and a run that was skipped because of the lock attempts no release.
C36_ReleaseRemovesOwnValue ==
    \A r \in Runs :
        /\ pc[r] = "release" /\ lockProp # Absent => lockProp = config[r].jobId
        /\ result[r] = "Skipped" => pc[r] # "release" /\ ~hist[r].releaseAttempted

\* What the code keeps: without an overwrite in the acquire the releasing
\* run finds its own id or nothing, and a skipped run never releases.
C36_ReleaseUnlessLostUpdate ==
    \A r \in Runs :
        /\ pc[r] = "release" /\ lockProp # Absent /\ ~lostUpdate
              => lockProp = config[r].jobId
        /\ result[r] = "Skipped" => pc[r] # "release" /\ ~hist[r].releaseAttempted

\* ------------------------------------------------------------------------
\* Threads per finding, resolution, commands and pushes, failed acquire
\* ------------------------------------------------------------------------

\* The active threads of the engine that embed a finding with the identity
\* (path, line, word) of F.
ThreadsOf(F) == {id \in ActiveThreadIds(threads) : isThreadForSuggestion(Me, threads[id], F)}

\* C37: for every identity (path, line, word) at most one active,
\* non-deleted thread of the engine embeds a finding with that identity.
C37_OneActiveThreadPerFinding ==
    \A F \in {F_teh, F_wrod, F_c} : Cardinality(ThreadsOf(F)) <= 1

\* What the code keeps: a run whose finding list names every identity once
\* and that found every call of the run before it served adds no second
\* thread to an identity.
C37_OneThreadWhenReportedOnce ==
    (\A r \in Runs : /\ Reported(hist[r].found, F_teh) <= 1
                     /\ Reported(prev[r].found, F_teh) <= 1
                     /\ ~prev[r].lost /\ ~hist[r].opFailed)
        => \A F \in {F_teh, F_wrod, F_c} : Cardinality(ThreadsOf(F)) <= 1

\* The updateThread calls the comment step of run r starts in this step
\* name a thread whose embedded finding satisfies P.
ResolvesOnly(r, P(_)) ==
    LET new == SubSeq(inflight'[r], Len(inflight[r]) + 1, Len(inflight'[r])) IN
    \A i \in DOMAIN new :
        new[i].op = "updateThread" => P(new[i].threadId)

\* Thread id embeds a finding that the list of run r still reports.
StillReported(r, id) ==
    Reported(codespell[r].suggestions, JSONparse(threads[id].suggestionProperty)) > 0

\* C38: the comment step sets a thread to resolved only if no finding of
\* the current list has the (path, line, word) of the finding the thread
\* embeds, whoever wrote the comments of the thread.
C38_ResolvedOnlyWhenNotReported ==
    [][\A r \in Runs :
          (pc[r] = "comment" /\ hist'[r].commented)
              => ResolvesOnly(r, LAMBDA id : ~StillReported(r, id))]_vars

\* What the code keeps: a resolved thread embeds a finding that is not
\* reported any more, or has no comment written by the current identity.
C38_ResolvedOnlyWhenNotReportedOrForeign ==
    [][\A r \in Runs :
          (pc[r] = "comment" /\ hist'[r].commented)
              => ResolvesOnly(r, LAMBDA id :
                    \/ ~StillReported(r, id)
                    \/ \A i \in DOMAIN threads[id].comments :
                          threads[id].comments[i].author # Me)]_vars

\* Every file that differs from the checked out commit in the work tree of
\* run r is an item of a push of run r.
ChangesPushed(r) ==
    \A p \in ModifiedPaths(disk[r], base[r]) :
        \E items \in hist[r].pushed : normalizeDevOpsPath(p) \in items

\* Run r started a like in its command step and run() returned without a
\* failure.
LikedAndEnded(r) ==
    /\ pc[r] = "done"
    /\ result[r] \in {"Succeeded", "SucceededWithIssues"}
    /\ "createLike" \in hist[r].mutations

\* C39: when a run has liked a command comment and ended, the file or
\* config change the command made is an item of a push of that run.
C39_LikedChangeIsPushed ==
    \A r \in Runs : LikedAndEnded(r) => ChangesPushed(r)

\* A platform call of the acquire of run r threw: the read (nothing was
\* read), or the write that followed a read of an absent property.
AcquireThrew(r) ==
    /\ prLock[r].set
    /\ \/ hist[r].readExisting = Undefined
       \/ hist[r].readExisting = Absent /\ ~prLock[r].wasAcquired

\* C40: when the read or the write of the lock property throws, acquire
\* reports acquired=false with no owner id and the run ends Skipped: the
\* commands are not processed, the tool is not run, nothing is pushed, no
\* thread call is started and no release is attempted.
C40_FailedAcquireSkipsRun ==
    \A r \in Runs :
        AcquireThrew(r) =>
           /\ ~prLock[r].wasAcquired
           /\ prLock[r].ownerJobId = Undefined
           /\ pc[r] = "done"
           /\ result[r] = "Skipped"
           /\ disk[r] = base[r]
           /\ hist[r].found = <<>>
           /\ hist[r].mutations = {}
           /\ hist[r].pushed = {}
           /\ ~hist[r].commented
           /\ inflight[r] = <<>>
           /\ ~hist[r].releaseAttempted

\* The write of the lock property threw after the property was read as
\* absent: the run is over, skipped, and the property is still absent.
C40_Witness ==
    \E r \in Runs :
        /\ AcquireThrew(r)
        /\ hist[r].readExisting = Absent
        /\ lockProp = Absent
        /\ config[r].commitSuggestions /\ config[r].commentSuggestions
        /\ result[r] = "Skipped"

====
